---- MODULE Spec2Model ----
(***************************************************************************)
(* A model of the .dat metadata codec (rawtools/utils/dat.py), the         *)
(* bit-depth oracle, the Raw dataset constructor and the range scaler of   *)
(* python-rawtools.                                                        *)
(*                                                                         *)
(* Text is modelled as a sequence of tokens.  A token is a string: either  *)
(* one character (a digit, ".", "e", "-", "+", a blank, a double quote) or *)
(* a literal unit of the file format ("Resolution:", "<Format>", ".raw",   *)
(* a word such as "USHORT").  The regular expressions of dat.py are        *)
(* translated to matchers over these sequences; numbers are matched and    *)
(* converted character by character.                                       *)
(*                                                                         *)
(* A Python float is modelled as an exact decimal: an integer count of     *)
(* units of 10^-FracDigits.  An optional value (None or a value) is a      *)
(* sequence of length 0 or 1.                                              *)
(***************************************************************************)
EXTENDS Integers, Sequences, FiniteSets, TLC

VARIABLES
    datFile,    \* the .dat file on disk: [exists, lines]
    rawFile,    \* the .raw file on disk: [exists, size]
    rd,         \* dat.read in progress: [pc, i, lines, dat]
    wr,         \* the last dat.write call: [pc, exc, dims, th, dtype]
    dbd,        \* the last determine_bit_depth call: [pc, size, n, ret, warned]
    raw,        \* the Raw object: [pc, bitdepth, dims, read]
    sc,         \* the scale call: [pc, x, y]
    disk,       \* the directories and files of a conversion: [dirs, files]
    obj         \* the dataset object of a conversion and its last operation

vars == <<datFile, rawFile, rd, wr, dbd, raw, sc, disk, obj>>

(***************************************************************************)
(* Bounds of the model.                                                    *)
(***************************************************************************)
MaxLines == 6       \* longest .dat file read line by line
MaxDim == 3         \* largest dimension of a volume in the bit-depth model
MaxExtra == 2       \* how far past 4n bytes a .raw file may reach

(***************************************************************************)
(* Python floats as exact decimals with FracDigits fractional digits.      *)
(***************************************************************************)
FracDigits == 7

RECURSIVE Pow10(_)
Pow10(k) == IF k = 0 THEN 1 ELSE 10 * Pow10(k - 1)

One == Pow10(FracDigits)

None == <<>>
Some(v) == <<v>>
IsNone(o) == o = <<>>

Max(S) == CHOOSE m \in S : \A k \in S : k <= m

(***************************************************************************)
(* Character classes of the re module.                                     *)
(***************************************************************************)
DigitChars == <<"0", "1", "2", "3", "4", "5", "6", "7", "8", "9">>

IsDigit(t) == \E d \in 1..10 : DigitChars[d] = t

DigitVal(t) == (CHOOSE d \in 1..10 : DigitChars[d] = t) - 1

\* \s : the blank is the only white space of the model
IsSpace(t) == t = " "

\* words the model's files hold as one token each
WordTokens == {"UCHAR", "USHORT", "FLOAT", "DENSITY", "Density", "ERROR", "vol", "scan"}

\* \w : a word token, a digit or the letter "e"
IsWord(t) == t \in WordTokens \/ IsDigit(t) \/ t = "e"

\* tokens of the shape \w+\: (a key followed by a colon)
ColonKeys == {"ObjectFileName:", "Resolution:", "SliceThickness:", "Format:",
              "ObjectModel:", "ObjectModelInvalid:"}

\* flags=re.IGNORECASE: a literal of a pattern matches its case variants
CaseFold(t) ==
    CASE t = "resolution:" -> "Resolution:"
      [] t = "FORMAT:" -> "Format:"
      [] t = ".RAW" -> ".raw"
      [] OTHER -> t

(***************************************************************************)
(* Matchers.  Each takes a line L and a position i (0: no match so far)    *)
(* and returns the position after the match, or 0 when there is none.      *)
(***************************************************************************)
Lit(L, i, t) ==
    IF i # 0 /\ i <= Len(L) /\ CaseFold(L[i]) = CaseFold(t) THEN i + 1 ELSE 0

RECURSIVE LitSeq(_, _, _)
LitSeq(L, i, ts) ==
    IF ts = <<>> THEN i ELSE LitSeq(L, Lit(L, i, Head(ts)), Tail(ts))

\* the end of the longest run from i of tokens satisfying Cls
InClass(cls, t) ==
    IF cls = "s" THEN IsSpace(t) ELSE IF cls = "d" THEN IsDigit(t) ELSE IsWord(t)

\* the end of the longest run of cls ("s", "d" or "w") characters from i
RunEnd(L, i, cls) ==
    IF i = 0 THEN 0
    ELSE Max({j \in i..(Len(L) + 1) : \A k \in i..(j - 1) : InClass(cls, L[k])})

\* \s*
Ws0(L, i) == RunEnd(L, i, "s")

\* \s+
Ws1(L, i) == LET j == Ws0(L, i) IN IF j > i THEN j ELSE 0

\* \s : exactly one
Ws(L, i) == IF i # 0 /\ i <= Len(L) /\ IsSpace(L[i]) THEN i + 1 ELSE 0

\* \d+
Dig1(L, i) == LET j == RunEnd(L, i, "d") IN IF j > i THEN j ELSE 0

\* \w+
Word1(L, i) == LET j == RunEnd(L, i, "w") IN IF j > i THEN j ELSE 0

\* $ : the end of the (stripped) line
AtEnd(L, i) == i # 0 /\ i = Len(L) + 1

Slice(L, i, j) == SubSeq(L, i, j - 1)

\* str.strip()
Strip(L) ==
    LET a == Ws0(L, 1)
        b == IF a > Len(L) THEN a - 1
             ELSE Max({j \in a..Len(L) : ~IsSpace(L[j])})
    IN  SubSeq(L, a, b)

(***************************************************************************)
(* int(str) and float(str) on the text a pattern captured.                 *)
(***************************************************************************)
RECURSIVE IntOf(_)
IntOf(ds) ==
    IF ds = <<>> THEN 0
    ELSE 10 * IntOf(SubSeq(ds, 1, Len(ds) - 1)) + DigitVal(ds[Len(ds)])

\* the digits ds after a decimal point, in units of 10^-FracDigits
RECURSIVE FracOf(_, _)
FracOf(ds, k) ==
    IF ds = <<>> THEN 0
    ELSE DigitVal(Head(ds)) * Pow10(FracDigits - k) + FracOf(Tail(ds), k + 1)

\* float("<ip>.<fp>e-<ep>") ; fp and ep may be empty
FloatOf(ip, fp, ep) ==
    (IntOf(ip) * One + FracOf(fp, 1)) \div Pow10(IntOf(ep))

(***************************************************************************)
(* str(int) and repr(float), as the f-string of dat.write formats them.    *)
(***************************************************************************)
RECURSIVE StrOfNat(_)
StrOfNat(n) ==
    IF n < 10 THEN <<DigitChars[n + 1]>>
    ELSE Append(StrOfNat(n \div 10), DigitChars[(n % 10) + 1])

StrOfInt(n) == IF n < 0 THEN <<"-">> \o StrOfNat(-n) ELSE StrOfNat(n)

RECURSIVE StripZeros(_)
StripZeros(v) == IF v # 0 /\ v % 10 = 0 THEN StripZeros(v \div 10) ELSE v

RECURSIVE TrailingZeros(_)
TrailingZeros(v) == IF v # 0 /\ v % 10 = 0 THEN 1 + TrailingZeros(v \div 10) ELSE 0

Zeros(k) == [j \in 1..k |-> "0"]

\* float.__repr__ of v > 0: the shortest digits, in fixed notation when the
\* decimal exponent is in -4..15 and in scientific notation otherwise
ReprFloat(v) ==
    LET ds == StrOfNat(StripZeros(v))
        e10 == Len(ds) - 1 + TrailingZeros(v) - FracDigits
        ipLen == e10 + 1
    IN  IF v = 0 THEN <<"0", ".", "0">>
        ELSE IF e10 >= -4 /\ e10 < 16
        THEN IF e10 >= 0
             THEN (IF Len(ds) >= ipLen THEN SubSeq(ds, 1, ipLen)
                   ELSE ds \o Zeros(ipLen - Len(ds)))
                  \o <<".">>
                  \o (IF Len(ds) > ipLen THEN SubSeq(ds, ipLen + 1, Len(ds))
                      ELSE <<"0">>)
             ELSE <<"0", ".">> \o Zeros(-e10 - 1) \o ds
        ELSE <<Head(ds)>>
             \o (IF Len(ds) > 1 THEN <<".">> \o Tail(ds) ELSE <<>>)
             \o <<"e">> \o (IF e10 < 0 THEN <<"-">> ELSE <<"+">>)
             \o (LET a == IF e10 < 0 THEN -e10 ELSE e10
                 IN  IF a < 10 THEN <<"0">> \o StrOfNat(a) ELSE StrOfNat(a))

(***************************************************************************)
(* The mappings between numpy dtype names and .dat format names.  A dtype  *)
(* name is a string, a format is the text of the file (a token sequence);  *)
(* an unknown name raises ValueError (None here).                          *)
(***************************************************************************)
format_from_bitdepth(name) ==
    CASE name \in {"uint8", "8"} -> Some(<<"UCHAR">>)
      [] name \in {"uint16", "16"} -> Some(<<"USHORT">>)
      [] name \in {"float32", "float", "32"} -> Some(<<"FLOAT">>)
      [] OTHER -> None

bitdepth_from_format(format) ==
    CASE format = <<"UCHAR">> -> Some("uint8")
      [] format = <<"USHORT">> -> Some("uint16")
      [] format = <<"FLOAT">> -> Some("float32")
      [] OTHER -> None

\* np.dtype(bitdepth).itemsize
itemsize(bitdepth) ==
    CASE bitdepth = "uint8" -> 1
      [] bitdepth = "uint16" -> 2
      [] bitdepth = "float32" -> 4

(***************************************************************************)
(* The per-line field parsers of dat.py.  Each returns None or Some(v).    *)
(***************************************************************************)
Q == "\""

\* .*\.raw followed by Rest: the capture ends at the last ".raw" after
\* which Rest matches
RawNameEnd(L, a, dat_format) ==
    LET Rest(j) == IF dat_format = "Dragonfly"
                   THEN Lit(L, Ws0(L, j), "</ObjectFileName>") # 0
                   ELSE AtEnd(L, Ws0(L, j))
        ends == {j \in a..Len(L) : CaseFold(L[j]) = ".raw" /\ Rest(j + 1)}
    IN  IF a = 0 \/ ends = {} THEN 0 ELSE Max(ends) + 1

parse_object_filename(line, dat_format) ==
    IF dat_format = "Dragonfly"
    THEN LET a == Ws0(line, Lit(line, Ws0(line, 1), "<ObjectFileName>"))
             b == RawNameEnd(line, a, dat_format)
         IN  IF b = 0 THEN None ELSE Some(Slice(line, a, b))
    ELSE LET a == Ws1(line, Lit(line, Ws0(line, 1), "ObjectFileName:"))
             b == RawNameEnd(line, a, dat_format)
         IN  IF b = 0 THEN None ELSE Some(Slice(line, a, b))

\* X="(\d+)"\s+Y="(\d+)"\s+Z="(\d+)" from position a
ResolutionAttrs(line, a) ==
    LET x1 == LitSeq(line, a, <<"X=", Q>>)
        x2 == Dig1(line, x1)
        y1 == LitSeq(line, Ws1(line, Lit(line, x2, Q)), <<"Y=", Q>>)
        y2 == Dig1(line, y1)
        z1 == LitSeq(line, Ws1(line, Lit(line, y2, Q)), <<"Z=", Q>>)
        z2 == Dig1(line, z1)
    IN  IF Lit(line, z2, Q) = 0 THEN None
        ELSE Some(<<IntOf(Slice(line, x1, x2)), IntOf(Slice(line, y1, y2)),
                    IntOf(Slice(line, z1, z2))>>)

\* Resolution\:\s+(\d+)\s+(\d+)\s+(\d+) from position a
ResolutionColon(line, a) ==
    LET x1 == Ws1(line, Lit(line, a, "Resolution:"))
        x2 == Dig1(line, x1)
        y1 == Ws1(line, x2)
        y2 == Dig1(line, y1)
        z1 == Ws1(line, y2)
        z2 == Dig1(line, z1)
    IN  IF z2 = 0 THEN None
        ELSE Some(<<IntOf(Slice(line, x1, x2)), IntOf(Slice(line, y1, y2)),
                    IntOf(Slice(line, z1, z2))>>)

parse_resolution(line, dat_format) ==
    IF dat_format = "Dragonfly"
    THEN ResolutionAttrs(line, LitSeq(line, Ws0(line, 1), <<"<Resolution", " ">>))
    ELSE LET match == ResolutionColon(line, Ws0(line, 1))
         IN  IF IsNone(match)
             THEN \* pattern_old_nsi begins with \s+
                  ResolutionAttrs(line, LitSeq(line, Ws1(line, 1), <<"<Resolution", " ">>))
             ELSE match

\* \d+\.\d+ at a: <<start of the integer part, start of the fraction, end>>
Decimal(line, a) ==
    LET f == Lit(line, Dig1(line, a), ".")
    IN  <<a, f, Dig1(line, f)>>

\* \d+(\.\d+(e-\d+)?)? at a: <<a, end of the integer part, end of the
\* fraction, end of the exponent>>
Number(line, a) ==
    LET i2 == Dig1(line, a)
        f2 == Dig1(line, Lit(line, i2, "."))
        fe == IF f2 = 0 THEN i2 ELSE f2
        e2 == IF f2 = 0 THEN 0 ELSE Dig1(line, LitSeq(line, f2, <<"e", "-">>))
        ee == IF e2 = 0 THEN fe ELSE e2
    IN  <<a, i2, fe, ee>>

\* float() of the text Number matched
NumberValue(line, m) ==
    FloatOf(Slice(line, m[1], m[2]),
            IF m[3] > m[2] THEN Slice(line, m[2] + 1, m[3]) ELSE <<>>,
            IF m[4] > m[3] THEN Slice(line, m[3] + 2, m[4]) ELSE <<>>)

DecimalValue(line, m) ==
    FloatOf(Slice(line, m[1], m[2] - 1), Slice(line, m[2], m[3]), <<>>)

parse_slice_thickness(line, dat_format) ==
    IF dat_format = "Dragonfly"
    THEN LET x == Number(line, LitSeq(line, Ws1(line, Lit(line, Ws0(line, 1), "<Spacing")), <<"X=", Q>>))
             y == Number(line, LitSeq(line, Ws1(line, Lit(line, x[4], Q)), <<"Y=", Q>>))
             z == Number(line, LitSeq(line, Ws1(line, Lit(line, y[4], Q)), <<"Z=", Q>>))
             end == Lit(line, Ws1(line, Lit(line, z[4], Q)), "/>")
         IN  IF end = 0 THEN None
             ELSE \* meters to millimeters
                  Some(<<NumberValue(line, x) * 1000, NumberValue(line, y) * 1000,
                         NumberValue(line, z) * 1000>>)
    ELSE LET \* \w+\: is a key token, after any run of word tokens
             k == RunEnd(line, 1, "w")
             key == IF k <= Len(line) /\ CaseFold(line[k]) \in ColonKeys THEN k + 1 ELSE 0
             x == Decimal(line, Ws1(line, key))
             y == Decimal(line, Ws1(line, x[3]))
             z == Decimal(line, Ws1(line, y[3]))
         IN  IF z[3] = 0 THEN None
             ELSE Some(<<DecimalValue(line, x), DecimalValue(line, y),
                         DecimalValue(line, z)>>)

parse_format(line, dat_format) ==
    IF dat_format = "Dragonfly"
    THEN LET a == Lit(line, Ws0(line, 1), "<Format>")
             b == Word1(line, a)
         IN  IF Lit(line, b, "</Format>") = 0 THEN None ELSE Some(Slice(line, a, b))
    ELSE LET a == Ws1(line, Lit(line, 1, "Format:"))
             b == Word1(line, a)
         IN  IF AtEnd(line, b) THEN Some(Slice(line, a, b)) ELSE None

parse_object_model(line, dat_format) ==
    IF dat_format = "Dragonfly"
    THEN LET a == Lit(line, Ws0(line, 1), "<Unit>")
             b == Word1(line, a)
         IN  IF Lit(line, b, "</Unit>") = 0 THEN None ELSE Some(Slice(line, a, b))
    ELSE LET a == Ws1(line, Lit(line, 1, "ObjectModel:"))
             b == Word1(line, a)
         IN  IF AtEnd(line, b) THEN Some(Slice(line, a, b)) ELSE None

\* <\?xml\sversion=\"1\.0\"\?> at the start of the line
is_dragonfly_dat_format(line) ==
    LitSeq(line, Ws(line, Lit(line, 1, "<?xml")),
           <<"version=", Q, "1", ".", "0", Q, "?>">>) # 0

(***************************************************************************)
(* dat.read: the Dat record and one iteration of the loop over the lines.  *)
(* dimensions stands for xdim, ydim, zdim and dimensions, which one        *)
(* statement assigns together; thickness likewise.                         *)
(***************************************************************************)
NewDat ==
    [syntax |-> "NSI", object_filename |-> None, dimensions |-> None,
     thickness |-> None, format |-> None, model |-> None]

\* the first match kept instead of the last
KeepFirst(old, new) == IF IsNone(old) THEN new ELSE old

Keep(old, new) == IF IsNone(new) THEN old ELSE new

\* ReadLine with the dialect decided by the current line alone
ReadLine_per_line(dat, rawline) ==
    LET line == Strip(rawline)
        syntax == IF is_dragonfly_dat_format(line) THEN "Dragonfly" ELSE "NSI"
    IN  [syntax |-> syntax,
         object_filename |-> Keep(dat.object_filename, parse_object_filename(line, syntax)),
         dimensions |-> Keep(dat.dimensions, parse_resolution(line, syntax)),
         thickness |-> Keep(dat.thickness, parse_slice_thickness(line, syntax)),
         format |-> Keep(dat.format, parse_format(line, syntax)),
         model |-> Keep(dat.model, parse_object_model(line, syntax))]

ReadLine(dat, rawline) ==
    LET line == Strip(rawline)
        syntax == IF is_dragonfly_dat_format(line) THEN "Dragonfly" ELSE dat.syntax
    IN  [syntax |-> syntax,
         object_filename |-> Keep(dat.object_filename, parse_object_filename(line, syntax)),
         dimensions |-> Keep(dat.dimensions, parse_resolution(line, syntax)),
         thickness |-> Keep(dat.thickness, parse_slice_thickness(line, syntax)),
         format |-> Keep(dat.format, parse_format(line, syntax)),
         model |-> Keep(dat.model, parse_object_model(line, syntax))]

\* the completeness test without the model
DatComplete_but_model(dat) ==
    /\ ~IsNone(dat.object_filename)
    /\ ~IsNone(dat.dimensions)
    /\ ~IsNone(dat.thickness)
    /\ ~IsNone(dat.format)

\* not any(value is None for value in asdict(dat).values())
DatComplete(dat) ==
    /\ ~IsNone(dat.object_filename)
    /\ ~IsNone(dat.dimensions)
    /\ ~IsNone(dat.thickness)
    /\ ~IsNone(dat.format)
    /\ ~IsNone(dat.model)

\* the whole of read(), for the callers that use its result at once
RECURSIVE ReadLines(_, _)
ReadLines(dat, lines) ==
    IF lines = <<>> THEN dat ELSE ReadLines(ReadLine(dat, Head(lines)), Tail(lines))

read(lines) ==
    LET Result(dat) == IF DatComplete(dat) THEN Some(dat) ELSE None
    IN  CHOOSE r \in {Result(dat) : dat \in {ReadLines(NewDat, lines)}} : TRUE

(***************************************************************************)
(* Python values handed to dat.write.  A scalar is [t, v, s]: an int v, a  *)
(* float of v units, a str of text s, or None.  A container is             *)
(* [kind, seq, map]: a tuple or list of seq, a dict map, or any other      *)
(* object.                                                                 *)
(***************************************************************************)
PyInt(n) == [t |-> "int", v |-> n, s |-> <<>>]
PyFloat(u) == [t |-> "float", v |-> u, s |-> <<>>]
PyStr(ts) == [t |-> "str", v |-> 0, s |-> ts]
PyNone == [t |-> "none", v |-> 0, s |-> <<>>]

PyTuple(items) == [kind |-> "tuple", seq |-> items, map |-> <<>>]
PyList(items) == [kind |-> "list", seq |-> items, map |-> <<>>]
PyDict(m) == [kind |-> "dict", seq |-> <<>>, map |-> m]
PyOther == [kind |-> "other", seq |-> <<>>, map |-> <<>>]

Ok(v) == [exc |-> "", v |-> v]
Raise(e) == [exc |-> e, v |-> 0]

AllDigits(ts) == ts # <<>> /\ \A k \in 1..Len(ts) : IsDigit(ts[k])

\* int(x)
PyIntOf(x) ==
    CASE x.t = "int" -> Ok(x.v)
      [] x.t = "float" -> Ok(IF x.v >= 0 THEN x.v \div One ELSE -((-x.v) \div One))
      [] x.t = "str" ->
            IF AllDigits(x.s) THEN Ok(IntOf(x.s))
            ELSE IF Len(x.s) > 1 /\ Head(x.s) = "-" /\ AllDigits(Tail(x.s))
            THEN Ok(-IntOf(Tail(x.s)))
            ELSE Raise("ValueError")
      [] OTHER -> Raise("TypeError")

\* float(x)
PyFloatOf(x) ==
    CASE x.t = "int" -> Ok(x.v * One)
      [] x.t = "float" -> Ok(x.v)
      [] x.t = "str" ->
            LET m == Number(x.s, 1)
            IN  IF AtEnd(x.s, m[4]) THEN Ok(NumberValue(x.s, m)) ELSE Raise("ValueError")
      [] OTHER -> Raise("TypeError")

\* str(int).isdigit()
IsDigitStr(n) == n >= 0

\* the first exception among the conversions rs, or ""
FirstExc(rs) ==
    IF \A k \in 1..Len(rs) : rs[k].exc = "" THEN ""
    ELSE rs[CHOOSE k \in 1..Len(rs) : rs[k].exc # "" /\ \A j \in 1..(k - 1) : rs[j].exc = ""].exc

\* int(v) for a dimension, float(v) for a thickness
Conv(to, v) == IF to = "int" THEN PyIntOf(v) ELSE PyFloatOf(v)

\* the three conversions rs as one outcome: the first exception, or the values
Packed(rs) ==
    IF FirstExc(rs) # "" THEN Raise(FirstExc(rs)) ELSE Ok(<<rs[1].v, rs[2].v, rs[3].v>>)

\* the x, y, z of a dimensions or thickness argument, each converted:
\* Ok(<<x, y, z>>) or the exception raised
Triple(arg, to) ==
    IF arg.kind \in {"tuple", "list"}
    THEN IF Len(arg.seq) # 3 THEN Raise("ValueError")
         ELSE CHOOSE r \in {Packed(rs) : rs \in {[k \in 1..3 |-> Conv(to, arg.seq[k])]}} : TRUE
    ELSE IF arg.kind = "dict"
    THEN IF ~({"x", "y", "z"} \subseteq DOMAIN arg.map) THEN Raise("KeyError")
         ELSE CHOOSE r \in {Packed(rs) : rs \in {[k \in 1..3 |-> Conv(to, arg.map[<<"x", "y", "z">>[k]])]}} : TRUE
    ELSE Raise("TypeError")

ReprSigned(v) == IF v < 0 THEN <<"-">> \o ReprFloat(-v) ELSE ReprFloat(v)

Blanks(k) == [j \in 1..k |-> " "]

\* output_string after textwrap.dedent, as readlines() splits it
DatText(stem, dims, th, Format, model) ==
    << <<"ObjectFileName:", " ">> \o stem \o <<".raw">>,
       <<"Resolution:">> \o Blanks(5) \o StrOfInt(dims[1]) \o <<" ">>
           \o StrOfInt(dims[2]) \o <<" ">> \o StrOfInt(dims[3]),
       <<"SliceThickness:", " ">> \o ReprSigned(th[1]) \o <<" ">>
           \o ReprSigned(th[2]) \o <<" ">> \o ReprSigned(th[3]),
       <<"Format:">> \o Blanks(9) \o Format,
       <<"ObjectModel:">> \o Blanks(4) \o model >>

(***************************************************************************)
(* dat.write: the exception its validation raises ("" for none) and the    *)
(* text it writes.  The file is opened only after every validation.        *)
(***************************************************************************)
\* the outcome of write once dimensions and thickness have been converted
Validated(fpath, dims, th, dtype, model) ==
    IF dims.exc # "" THEN [exc |-> dims.exc, opened |-> FALSE, text |-> <<>>]
    ELSE IF ~(\A k \in 1..3 : IsDigitStr(dims.v[k]))
    THEN [exc |-> "TypeError", opened |-> FALSE, text |-> <<>>]
    ELSE IF th.exc # "" THEN [exc |-> th.exc, opened |-> FALSE, text |-> <<>>]
    ELSE IF IsNone(format_from_bitdepth(dtype))
    THEN [exc |-> "ValueError", opened |-> FALSE, text |-> <<>>]
    ELSE [exc |-> "", opened |-> TRUE,
          text |-> DatText(fpath.stem, dims.v, th.v, format_from_bitdepth(dtype)[1], model)]

\* a write that opens (and so truncates) the target before validating
write_opens_first(fpath, dimensions, thickness, dtype, model) ==
    CHOOSE r \in {[v EXCEPT !.opened = TRUE] :
                     v \in {Validated(fpath, dims, th, dtype, model) :
                              dims \in {Triple(dimensions, "int")},
                              th \in {Triple(thickness, "float")}}} : TRUE

write(fpath, dimensions, thickness, dtype, model) ==
    CHOOSE r \in {Validated(fpath, dims, th, dtype, model) :
                     dims \in {Triple(dimensions, "int")},
                     th \in {Triple(thickness, "float")}} : TRUE

(***************************************************************************)
(* determine_bit_depth.                                                    *)
(***************************************************************************)
prod(dims) == dims[1] * dims[2] * dims[3]

Returned(bitdepth, warned) == [ret |-> Some(bitdepth), warned |-> warned, raised |-> FALSE]

Raised == [ret |-> None, warned |-> FALSE, raised |-> TRUE]

\* determine_bit_depth with the too-small test widened to <=
determine_bit_depth_le(filesize, dims) ==
    CASE filesize <= prod(dims) -> Returned("uint8", TRUE)
      [] filesize = 2 * prod(dims) -> Returned("uint16", FALSE)
      [] filesize = 4 * prod(dims) -> Returned("float32", FALSE)
      [] filesize < 2 * prod(dims) -> Returned("uint16", TRUE)
      [] 2 * prod(dims) < filesize /\ filesize < 4 * prod(dims) -> Returned("float32", TRUE)
      [] OTHER -> Raised

\* determine_bit_depth with no upper limit on the float32 bucket
determine_bit_depth_unbounded(filesize, dims) ==
    CASE filesize < prod(dims) -> Returned("uint8", TRUE)
      [] filesize = prod(dims) -> Returned("uint8", FALSE)
      [] filesize = 2 * prod(dims) -> Returned("uint16", FALSE)
      [] filesize = 4 * prod(dims) -> Returned("float32", FALSE)
      [] filesize < 2 * prod(dims) -> Returned("uint16", TRUE)
      [] OTHER -> Returned("float32", TRUE)

\* determine_bit_depth without the too-small bucket
determine_bit_depth_two_buckets(filesize, dims) ==
    CASE filesize = prod(dims) -> Returned("uint8", FALSE)
      [] filesize = 2 * prod(dims) -> Returned("uint16", FALSE)
      [] filesize = 4 * prod(dims) -> Returned("float32", FALSE)
      [] filesize < 2 * prod(dims) -> Returned("uint16", TRUE)
      [] 2 * prod(dims) < filesize /\ filesize < 4 * prod(dims) -> Returned("float32", TRUE)
      [] OTHER -> Raised

determine_bit_depth(filesize, dims) ==
    LET minimum_size == prod(dims)
        expected_uint8_fsize == minimum_size
        expected_uint16_fsize == minimum_size * 2
        expected_float32_fsize == minimum_size * 4
    IN  IF filesize < expected_uint8_fsize
        THEN [ret |-> Some("uint8"), warned |-> TRUE, raised |-> FALSE]
        ELSE IF filesize = expected_uint8_fsize
        THEN [ret |-> Some("uint8"), warned |-> FALSE, raised |-> FALSE]
        ELSE IF filesize = expected_uint16_fsize
        THEN [ret |-> Some("uint16"), warned |-> FALSE, raised |-> FALSE]
        ELSE IF filesize = expected_float32_fsize
        THEN [ret |-> Some("float32"), warned |-> FALSE, raised |-> FALSE]
        ELSE IF expected_uint8_fsize < filesize /\ filesize < expected_uint16_fsize
        THEN [ret |-> Some("uint16"), warned |-> TRUE, raised |-> FALSE]
        ELSE IF expected_uint16_fsize < filesize /\ filesize < expected_float32_fsize
        THEN [ret |-> Some("float32"), warned |-> TRUE, raised |-> FALSE]
        ELSE [ret |-> None, warned |-> FALSE, raised |-> TRUE]

(***************************************************************************)
(* The files of the model.                                                 *)
(***************************************************************************)
DatPath == [stem |-> <<"vol">>, ext |-> ".dat"]

NoFile == [exists |-> FALSE, lines |-> <<>>]
TextFile(ls) == [exists |-> TRUE, lines |-> ls]

NoRaw == [exists |-> FALSE, size |-> 0]
RawOfSize(n) == [exists |-> TRUE, size |-> n]

\* lines of NSI files
NsiName == <<"ObjectFileName:", " ", "vol", ".raw">>
NsiRes == <<"Resolution:", " ", " ", "1", "0", " ", "1", "1", " ", "1", "2">>
NsiRes2 == <<"resolution:", " ", "2", " ", "3", " ", "4">>
NsiTh == <<"SliceThickness:", " ", "0", ".", "5", " ", "0", ".", "5", " ", "0", ".", "2", "5">>
NsiFormat == <<"Format:", " ", " ", "USHORT">>
NsiModel == <<"ObjectModel:", " ", "DENSITY">>
NsiBadModel == <<"ObjectModelInvalid:", " ", "DENSITY">>

\* lines of Dragonfly files, indented as Dragonfly writes them
XmlDecl == <<"<?xml", " ", "version=", Q, "1", ".", "0", Q, "?>">>
BadXmlDecl == <<"<?xml", " ", "ERROR", " ", "version=", Q, "1", ".", "0", Q, "?>">>
DfName == <<" ", "<ObjectFileName>", "vol", ".raw", "</ObjectFileName>">>
DfRes == <<" ", "<Resolution", " ", "X=", Q, "3", "7", Q, " ", "Y=", Q, "3", "7", Q, " ",
           "Z=", Q, "4", Q, " ", "T=", Q, "1", Q, " ", "/>">>
DfSpacing == <<" ", "<Spacing", " ", "X=", Q, "4", ".", "3", "e", "-", "0", "4", Q, " ",
               "Y=", Q, "4", ".", "3", "e", "-", "0", "4", Q, " ",
               "Z=", Q, "0", ".", "0", "0", "1", Q, " ", "/>">>
DfFormat == <<" ", "<Format>", "FLOAT", "</Format>">>
DfUnit == <<" ", "<Unit>", "Density", "</Unit>">>

\* the pools the files read line by line are drawn from
PoolNsi == {NsiName, NsiRes, NsiTh, NsiFormat, NsiModel, NsiRes2}
PoolNsiBad == {NsiName, NsiRes, NsiTh, NsiBadModel, BadXmlDecl}
PoolDragonfly == {XmlDecl, DfName, DfRes, DfSpacing, DfFormat, DfUnit}
PoolMixed == {XmlDecl, NsiName, NsiRes, DfSpacing, DfFormat, DfUnit}
Pools == {PoolNsi, PoolNsiBad, PoolDragonfly, PoolMixed}

\* the sequences of at most n distinct lines of pool P
RECURSIVE DistinctSeqs(_, _)
DistinctSeqs(P, n) ==
    IF n = 0 THEN {<<>>}
    ELSE LET shorter == DistinctSeqs(P, n - 1)
         IN  shorter \cup
             {Append(f, l) : <<f, l>> \in
                 {fl \in shorter \X P : \A k \in 1..Len(fl[1]) : fl[1][k] # fl[2]}}

ReadableFiles == UNION {DistinctSeqs(P, MaxLines) : P \in Pools}

(***************************************************************************)
(* The idle values of the variables.                                       *)
(***************************************************************************)
RdIdle == [pc |-> "idle", i |-> 0, lines |-> <<>>, dat |-> NewDat, result |-> None]
WrIdle == [pc |-> "idle", exc |-> "", dimensions |-> PyOther, thickness |-> PyOther,
           dtype |-> ""]
DbdIdle == [pc |-> "idle", size |-> 0, dims |-> <<0, 0, 0>>, ret |-> None,
            warned |-> FALSE, raised |-> FALSE]
RawNone == [pc |-> "none", exc |-> "", bitdepth |-> "", format |-> <<>>,
            dims |-> <<0, 0, 0>>, filesize |-> 0, op |-> "", dtype |-> ""]
ScIdle == [pc |-> "idle", x |-> 0, y |-> 0]

\* no directory and no file of a conversion; no dataset object
NoDisk == [dirs |-> {}, files |-> <<>>]

NoDataset == [pc |-> "none"]

(***************************************************************************)
(* dat.read, one line per step.                                            *)
(***************************************************************************)
\* open(fpath) and ifp.readlines()
ReadOpen ==
    /\ rd.pc = "idle"
    /\ datFile.exists
    /\ rd' = [pc |-> "scan", i |-> 0, lines |-> datFile.lines, dat |-> NewDat,
              result |-> None]
    /\ UNCHANGED <<datFile, rawFile, wr, dbd, raw, sc, disk, obj>>

\* one iteration of the loop over the lines
ReadScan ==
    /\ rd.pc = "scan"
    /\ rd.i < Len(rd.lines)
    /\ rd' = [rd EXCEPT !.i = rd.i + 1, !.dat = ReadLine(rd.dat, rd.lines[rd.i + 1])]
    /\ UNCHANGED <<datFile, rawFile, wr, dbd, raw, sc, disk, obj>>

\* after the loop: return dat, or raise ValueError
ReadReturn ==
    /\ rd.pc = "scan"
    /\ rd.i = Len(rd.lines)
    /\ rd' = IF DatComplete(rd.dat)
             THEN [rd EXCEPT !.pc = "returned", !.result = Some(rd.dat)]
             ELSE [rd EXCEPT !.pc = "raised"]
    /\ UNCHANGED <<datFile, rawFile, wr, dbd, raw, sc, disk, obj>>

InitRead ==
    /\ datFile \in {TextFile(f) : f \in ReadableFiles}
    /\ rawFile = NoRaw
    /\ rd = RdIdle
    /\ wr = WrIdle
    /\ dbd = DbdIdle
    /\ raw = RawNone
    /\ sc = ScIdle
    /\ disk = NoDisk
    /\ obj = NoDataset

NextRead == ReadOpen \/ ReadScan \/ ReadReturn

SpecRead == InitRead /\ [][NextRead]_vars

(***************************************************************************)
(* dat.write, called once with arguments of every shape.                   *)
(***************************************************************************)
Half == One \div 2

DimTriples == {<<1, 1, 1>>, <<10, 11, 12>>, <<100, 100, 250>>}

XYZ(t) == [k \in {"x", "y", "z"} |-> CASE k = "x" -> t[1] [] k = "y" -> t[2] [] OTHER -> t[3]]

Ints(t) == <<PyInt(t[1]), PyInt(t[2]), PyInt(t[3])>>

GoodDimArgs ==
    {PyTuple(Ints(t)) : t \in DimTriples}
        \cup {PyList(Ints(<<10, 11, 12>>)), PyDict(XYZ(Ints(<<10, 11, 12>>)))}

OddDimArgs ==
    {PyTuple(<<PyInt(10), PyInt(11)>>),
     PyList(<<PyInt(1), PyInt(2), PyInt(3), PyInt(4)>>),
     PyDict([k \in {"x", "z"} |-> PyInt(5)]),
     PyOther,
     PyTuple(<<PyInt(10), PyInt(-11), PyInt(12)>>),
     PyTuple(<<PyInt(10), PyStr(<<"vol">>), PyInt(12)>>),
     PyTuple(<<PyNone, PyInt(11), PyInt(12)>>),
     PyTuple(<<PyFloat(One + Half), PyInt(11), PyInt(12)>>),
     PyTuple(<<PyInt(10), PyInt(0), PyInt(12)>>),
     PyTuple(<<PyStr(<<"7">>), PyInt(11), PyInt(12)>>)}

\* thickness values, in units: 1, 0.5, 0.25, 12.5, 0.0001, 0.00001, 0.000015
ThTriples ==
    {<<PyInt(1), PyInt(1), PyInt(1)>>,
     <<PyFloat(Half), PyFloat(Half), PyFloat(Half \div 2)>>,
     <<PyFloat(12 * One + Half), PyFloat(One \div 10000), PyFloat(One)>>,
     <<PyFloat(One \div 100000), PyFloat(One \div 100000), PyFloat(One \div 100000)>>,
     <<PyFloat(Half), PyFloat(Half), PyFloat(15 * (One \div 1000000))>>}

GoodThArgs ==
    {PyTuple(t) : t \in ThTriples}
        \cup {PyList(<<PyFloat(Half), PyFloat(Half), PyFloat(Half)>>),
              PyDict(XYZ(<<PyFloat(Half), PyFloat(Half), PyFloat(One)>>))}

OddThArgs ==
    {PyTuple(<<PyFloat(Half), PyFloat(Half)>>),
     PyDict([k \in {"x", "y"} |-> PyFloat(Half)]),
     PyOther,
     PyTuple(<<PyFloat(Half), PyStr(<<"vol">>), PyFloat(Half)>>),
     PyTuple(<<PyFloat(Half), PyFloat(Half), PyFloat(-Half)>>)}

DtypeArgs == {"uint8", "uint16", "float32", "float", "int32"}

\* the model argument's default
DefaultModel == <<"DENSITY">>

\* one call of write(fpath, dimensions, thickness, dtype).  disk_full: the
\* device has no space left, so writing the opened file raises OSError.
DatWrite(dimensions, thickness, dtype, disk_full) ==
    /\ wr.pc = "idle"
    /\ \E r \in {write(DatPath, dimensions, thickness, dtype, DefaultModel)} :
          \E exc \in {IF r.exc = "" /\ disk_full THEN "OSError" ELSE r.exc} :
             /\ wr' = [pc |-> IF exc = "" THEN "returned" ELSE "raised", exc |-> exc,
                       dimensions |-> dimensions, thickness |-> thickness, dtype |-> dtype]
             /\ datFile' = IF ~r.opened THEN datFile
                           ELSE IF exc = "" THEN TextFile(r.text)
                           ELSE TextFile(<<>>)
    /\ UNCHANGED <<rawFile, rd, dbd, raw, sc, disk, obj>>

DatWriteAny ==
    \E dimensions \in GoodDimArgs \cup OddDimArgs, thickness \in GoodThArgs \cup OddThArgs,
       dtype \in DtypeArgs, disk_full \in BOOLEAN :
        DatWrite(dimensions, thickness, dtype, disk_full)

InitWrite ==
    /\ datFile \in {NoFile, TextFile(<<>>),
                    TextFile(<<NsiName, NsiRes2, NsiTh, NsiFormat, NsiModel>>)}
    /\ rawFile = NoRaw
    /\ rd = RdIdle
    /\ wr = WrIdle
    /\ dbd = DbdIdle
    /\ raw = RawNone
    /\ sc = ScIdle
    /\ disk = NoDisk
    /\ obj = NoDataset

NextWrite == DatWriteAny \/ ReadOpen \/ ReadScan \/ ReadReturn

SpecWrite == InitWrite /\ [][NextWrite]_vars

(***************************************************************************)
(* determine_bit_depth on its own, the construction of a Raw, and the      *)
(* reads of a constructed Raw.                                             *)
(***************************************************************************)
BitDims == {<<x, y, z>> : x \in 1..MaxDim, y \in 1..MaxDim, z \in 0..1}

DatFormats == {<<"UCHAR">>, <<"USHORT">>, <<"FLOAT">>, <<"DENSITY">>}

\* the call determine_bit_depth(fpath, dims) on the .raw file
DetermineBitDepth(dims) ==
    /\ dbd.pc = "idle"
    /\ raw.pc = "none"
    /\ rawFile.exists
    /\ \E r \in {determine_bit_depth(rawFile.size, dims)} :
          dbd' = [pc |-> "done", size |-> rawFile.size, dims |-> dims,
                  ret |-> r.ret, warned |-> r.warned, raised |-> r.raised]
    /\ UNCHANGED <<datFile, rawFile, rd, wr, raw, sc, disk, obj>>

\* the call with the dimensions the .dat file declares
DetermineBitDepthOfDat ==
    /\ datFile.exists
    /\ \E dat \in {read(datFile.lines)} :
          /\ ~IsNone(dat)
          /\ \E dims \in {dat[1].dimensions[1]} : DetermineBitDepth(dims)

RawFailed(exc) == [RawNone EXCEPT !.pc = "failed", !.exc = exc]

\* Raw(path): the attributes once the metadata has been read
RawLoaded(metadata) ==
    \E dims \in {metadata.dimensions[1]},
       bitdepth \in {bitdepth_from_format(metadata.format[1])} :
        IF IsNone(bitdepth)
        THEN raw' = RawFailed("ValueError") /\ dbd' = dbd
        ELSE IF ~rawFile.exists
        THEN raw' = RawFailed("FileNotFoundError") /\ dbd' = dbd
        ELSE \E check \in {determine_bit_depth(rawFile.size, dims)} :
                /\ dbd' = [pc |-> "done", size |-> rawFile.size, dims |-> dims,
                           ret |-> check.ret, warned |-> check.warned,
                           raised |-> check.raised]
                /\ raw' = IF check.raised THEN RawFailed("Exception")
                          ELSE [pc |-> "ok", exc |-> "", bitdepth |-> bitdepth[1],
                                format |-> format_from_bitdepth(bitdepth[1])[1],
                                dims |-> dims, filesize |-> rawFile.size,
                                op |-> "", dtype |-> ""]

\* Raw(path)
RawInit ==
    /\ raw.pc = "none"
    /\ IF ~datFile.exists
       THEN raw' = RawFailed("FileNotFoundError") /\ dbd' = dbd
       ELSE \E metadata \in {read(datFile.lines)} :
               IF IsNone(metadata)
               THEN raw' = RawFailed("ValueError") /\ dbd' = dbd
               ELSE \E m \in {metadata[1]} : RawLoaded(m)
    /\ UNCHANGED <<datFile, rawFile, rd, wr, sc, disk, obj>>

RawOps == {"slices", "minmax", "asarray", "to_slices", "to_raw"}

\* one of the reads of the file: np.fromfile(..., dtype=self.bitdepth)
RawRead(op) ==
    /\ raw.pc = "ok"
    /\ raw' = [raw EXCEPT !.op = op, !.dtype = raw.bitdepth]
    /\ UNCHANGED <<datFile, rawFile, rd, wr, dbd, sc, disk, obj>>

InitBits ==
    /\ \E dims \in BitDims, Format \in DatFormats :
          /\ datFile \in {NoFile, TextFile(DatText(DatPath.stem, dims, <<One, One, One>>,
                                                   Format, DefaultModel))}
          /\ rawFile \in {NoRaw} \cup {RawOfSize(n) : n \in 0..(4 * prod(dims) + MaxExtra)}
    /\ rd = RdIdle
    /\ wr = WrIdle
    /\ dbd = DbdIdle
    /\ raw = RawNone
    /\ sc = ScIdle
    /\ disk = NoDisk
    /\ obj = NoDataset

NextBits == DetermineBitDepthOfDat \/ RawInit \/ (\E op \in RawOps : RawRead(op))

SpecBits == InitBits /\ [][NextBits]_vars

(***************************************************************************)
(* linear_scale on numpy arrays of an integer dtype, element by element.   *)
(* The division makes float64 values; a float64 value v >= 0 is held       *)
(* exactly as v = ip + 0.fr, fr the bits after the binary point, and each  *)
(* operation rounds its exact result to the nearest value with MantBits    *)
(* significant bits, ties to even.                                         *)
(***************************************************************************)
MantBits == 53

Uint16Max == 65535

Uint8Max == 255

RECURSIVE BitLen(_)
BitLen(n) == IF n = 0 THEN 0 ELSE 1 + BitLen(n \div 2)

\* the number of 0 bits before the first 1 bit
LeadingZeros(fr) ==
    IF \A j \in 1..Len(fr) : fr[j] = 0 THEN Len(fr)
    ELSE (CHOOSE j \in 1..Len(fr) : fr[j] = 1 /\ \A h \in 1..(j - 1) : fr[h] = 0) - 1

\* one unit in the last place added to ip + 0.fr
NextUp(ip, fr) ==
    IF \A j \in 1..Len(fr) : fr[j] = 1 THEN [ip |-> ip + 1, fr |-> [j \in 1..Len(fr) |-> 0]]
    ELSE LET z == CHOOSE j \in 1..Len(fr) : fr[j] = 0 /\ \A h \in (j + 1)..Len(fr) : fr[h] = 1
         IN  [ip |-> ip, fr |-> [j \in 1..Len(fr) |-> IF j < z THEN fr[j] ELSE IF j = z THEN 1 ELSE 0]]

\* rounding toward zero instead of to nearest
RoundToFloat64_toward_zero(ip, fr, sticky) ==
    LET keep == IF ip > 0 THEN MantBits - BitLen(ip) ELSE LeadingZeros(fr) + MantBits
    IN  IF Len(fr) <= keep THEN [ip |-> ip, fr |-> fr]
        ELSE [ip |-> ip, fr |-> SubSeq(fr, 1, keep)]

\* the float64 nearest to ip + 0.fr (+ something below the last bit of fr
\* when sticky)
RoundToFloat64(ip, fr, sticky) ==
    LET keep == IF ip > 0 THEN MantBits - BitLen(ip) ELSE LeadingZeros(fr) + MantBits
        guard == fr[keep + 1]
        rest == sticky \/ \E j \in (keep + 2)..Len(fr) : fr[j] = 1
        lsb == IF keep = 0 THEN ip % 2 ELSE fr[keep]
    IN  IF Len(fr) <= keep THEN [ip |-> ip, fr |-> fr]
        ELSE IF guard = 1 /\ (rest \/ lsb = 1) THEN NextUp(ip, SubSeq(fr, 1, keep))
        ELSE [ip |-> ip, fr |-> SubSeq(fr, 1, keep)]

\* bits in groups of eight: the i-th byte of fr (zeros after its end), and
\* the bits of a sequence of bytes
BitAt(fr, j) == IF j <= Len(fr) THEN fr[j] ELSE 0

ByteAt(fr, i) ==
    128 * BitAt(fr, 8 * i - 7) + 64 * BitAt(fr, 8 * i - 6) + 32 * BitAt(fr, 8 * i - 5)
        + 16 * BitAt(fr, 8 * i - 4) + 8 * BitAt(fr, 8 * i - 3) + 4 * BitAt(fr, 8 * i - 2)
        + 2 * BitAt(fr, 8 * i - 1) + BitAt(fr, 8 * i)

BitsOf(bytes) ==
    [j \in 1..(8 * Len(bytes)) |-> (bytes[((j - 1) \div 8) + 1] \div 2^(7 - ((j - 1) % 8))) % 2]

\* n more bytes of r / b after the binary point, r < b < 2^23, and the
\* remainder
RECURSIVE LongDivision(_, _, _, _)
LongDivision(r, b, n, bytes) ==
    IF n = 0 THEN [bytes |-> bytes, rem |-> r]
    ELSE LongDivision((256 * r) % b, b, n - 1, Append(bytes, (256 * r) \div b))

\* np.true_divide of two integers, 0 <= a, 0 < b
true_divide(a, b) ==
    LET q == LongDivision(a % b, b, ((MantBits + BitLen(b)) \div 8) + 1, <<>>)
    IN  RoundToFloat64(a \div b, BitsOf(q.bytes), q.rem # 0)

\* the bytes i, i - 1, ..., 1 of 0.fr * k, 0 <= k < 2^23, and the carry
\* into the integer part
RECURSIVE TimesInt(_, _, _, _, _)
TimesInt(fr, k, i, carry, bytes) ==
    IF i = 0 THEN [bytes |-> bytes, carry |-> carry]
    ELSE TimesInt(fr, k, i - 1, (ByteAt(fr, i) * k + carry) \div 256,
                  <<(ByteAt(fr, i) * k + carry) % 256>> \o bytes)

\* float64 * int, 0 <= k
multiply(v, k) ==
    LET p == TimesInt(v.fr, k, (Len(v.fr) + 7) \div 8, 0, <<>>)
    IN  RoundToFloat64(v.ip * k + p.carry, BitsOf(p.bytes), FALSE)

\* float64 + int, 0 <= c
add(v, c) == RoundToFloat64(v.ip + c, v.fr, FALSE)

\* rounding to the nearest integer, halves upward, instead of flooring
floor_to_nearest(v) == IF v.fr # <<>> /\ v.fr[1] = 1 THEN v.ip + 1 ELSE v.ip

\* np.floor(v).astype(an integer dtype), 0 <= v
floor(v) == v.ip

\* (x - a) / (b - a) * (d - c) + c
linear_scale(x, a, b, c, d) == add(multiply(true_divide(x - a, b - a), d - c), c)

\* array_to_image on one pixel of a uint16 array saved as a uint8 image
ScaleFloor ==
    /\ sc.pc = "idle"
    /\ \E v \in {linear_scale(sc.x, 0, Uint16Max, 0, Uint8Max)} :
          sc' = [sc EXCEPT !.pc = "done", !.y = floor(v)]
    /\ UNCHANGED <<datFile, rawFile, rd, wr, dbd, raw, disk, obj>>

InitScale ==
    /\ datFile = NoFile
    /\ rawFile = NoRaw
    /\ rd = RdIdle
    /\ wr = WrIdle
    /\ dbd = DbdIdle
    /\ raw = RawNone
    /\ sc \in {[ScIdle EXCEPT !.x = x] : x \in 0..Uint16Max}
    /\ disk = NoDisk
    /\ obj = NoDataset

NextScale == ScaleFloor

SpecScale == InitScale /\ [][NextScale]_vars

(***************************************************************************)
(* The files of a conversion.  A string is a sequence of characters.  A    *)
(* path is a directory and a basename; the directory <<>> is the empty     *)
(* string that os.path.dirname gives for a bare file name.  A file is      *)
(* [kind, dtype, unit, h, w, data]: the voxels of a .raw, the lines of a   *)
(* .dat, the pixels of an image, the points of a point cloud.              *)
(***************************************************************************)
Path(dir, name) == [dir |-> dir, name |-> name]

\* os.path.join(dir, name) as one string
join(dir, name) == IF dir = <<>> THEN name ELSE dir \o <<"/">> \o name

\* os.path.dirname(s) and os.path.basename(s) as a path
split(s) ==
    LET slashes == {i \in 1..Len(s) : s[i] = "/"}
    IN  IF slashes = {} THEN Path(<<>>, s)
        ELSE Path(SubSeq(s, 1, Max(slashes) - 1), SubSeq(s, Max(slashes) + 1, Len(s)))

\* os.path.splitext(name): the extension starts at the last "." that is not
\* a leading one
splitext(name) ==
    LET dots == {i \in 2..Len(name) : name[i] = "." /\ \E h \in 1..(i - 1) : name[h] # "."}
    IN  IF dots = {} THEN <<name, <<>>>>
        ELSE <<SubSeq(name, 1, Max(dots) - 1), SubSeq(name, Max(dots), Len(name))>>

\* unit "scaled": the values are those of data under a scaling to or from the
\* float32 range, which the model does not evaluate; unit "nan": every value is
\* NaN
File(kind, dtype, unit, h, w, data) ==
    [kind |-> kind, dtype |-> dtype, unit |-> unit, h |-> h, w |-> w, data |-> data]

\* open(p, 'w') ... write(content)
Put(files, p, content) ==
    [q \in (DOMAIN files) \cup {p} |-> IF q = p THEN content ELSE files[q]]

\* os.listdir(dir) of an existing directory
listdir(d, dir) == {p.name : p \in {q \in DOMAIN d.files : q.dir = dir}}

\* a < b for two strings, as str.__lt__ compares them
RECURSIVE StrLess(_, _)
StrLess(a, b) ==
    LET \* the characters of the model's paths, in increasing order of ord()
        Chars == << " ", "(", ")", "-", ".", "/", "0", "1", "2", "3", "4", "5", "6",
                    "7", "8", "9", "_", "a", "b", "c", "d", "f", "g", "i", "j", "n",
                    "o", "p", "r", "t", "u", "v", "w", "x", "y", "z" >>
        Ord(t) == CHOOSE i \in 1..Len(Chars) : Chars[i] = t
    IN  IF b = <<>> THEN FALSE
        ELSE IF a = <<>> THEN TRUE
        ELSE IF Head(a) = Head(b) THEN StrLess(Tail(a), Tail(b))
        ELSE Ord(Head(a)) < Ord(Head(b))

(***************************************************************************)
(* difflib.get_close_matches, as Raw.__find_dat calls it: n = 3 and        *)
(* cutoff = 0.6.  The ratio of a possibility x and the word is 2 * M / T,  *)
(* M the total size of their matching blocks and T the sum of their        *)
(* lengths.  The blocks are found as SequenceMatcher finds them: the       *)
(* longest common block, the one that starts earliest in x and then        *)
(* earliest in the word, then the same to its left and to its right.  The  *)
(* result is the n best possibilities, best first.                         *)
(***************************************************************************)
cutoff == 6     \* in tenths
n_matches == 3

get_close_matches(word, possibilities) ==
    LET RECURSIVE CommonRun(_, _, _, _, _)
        CommonRun(x, i, j, ahi, bhi) ==
            IF i > ahi \/ j > bhi THEN 0
            ELSE IF x[i] # word[j] THEN 0
            ELSE 1 + CommonRun(x, i + 1, j + 1, ahi, bhi)
        \* <<i, j, size>>
        find_longest_match(x, alo, ahi, blo, bhi) ==
            LET runs == {<<i, j, CommonRun(x, i, j, ahi, bhi)>> : i \in alo..ahi, j \in blo..bhi}
            IN  CHOOSE r \in runs :
                   \A q \in runs :
                      \/ q[3] < r[3]
                      \/ q[3] = r[3] /\ (r[1] < q[1] \/ (r[1] = q[1] /\ r[2] <= q[2]))
        RECURSIVE MatchingSize(_, _, _, _, _)
        MatchingSize(x, alo, ahi, blo, bhi) ==
            IF alo > ahi \/ blo > bhi THEN 0
            ELSE CHOOSE total \in
                    {IF m[3] = 0 THEN 0
                     ELSE MatchingSize(x, alo, m[1] - 1, blo, m[2] - 1) + m[3]
                            + MatchingSize(x, m[1] + m[3], ahi, m[2] + m[3], bhi) :
                       m \in {find_longest_match(x, alo, ahi, blo, bhi)}} : TRUE
        \* <<M, T>> of every possibility
        score == [x \in possibilities |->
                     <<MatchingSize(x, 1, Len(x), 1, Len(word)), Len(x) + Len(word)>>]
        close == {x \in possibilities : 20 * score[x][1] >= cutoff * score[x][2]}
        \* (ratio, x) sorts after (ratio, y)
        Before(x, y) ==
            \/ score[x][1] * score[y][2] > score[y][1] * score[x][2]
            \/ score[x][1] * score[y][2] = score[y][1] * score[x][2] /\ StrLess(y, x)
        RECURSIVE Best(_, _)
        Best(S, n) ==
            IF S = {} \/ n = 0 THEN <<>>
            ELSE LET x == CHOOSE c \in S : \A y \in S \ {c} : Before(c, y)
                 IN  <<x>> \o Best(S \ {x}, n - 1)
    IN  Best(close, n_matches)

(***************************************************************************)
(* Raw.__find_dat: the data file that goes with the volume at path.  The   *)
(* result is the name found in the directory of the volume, whether a      *)
(* warning was logged, and the exception raised, "" for none.              *)
(***************************************************************************)
find_dat(d, path) ==
    LET dpath == path.dir
        fname == splitext(path.name)[1]
        dat_name == fname \o <<".", "d", "a", "t">>
        NotFound == [exc |-> "FileNotFoundError", name |-> <<>>, warned |-> FALSE]
    IN  IF Path(dpath, dat_name) \in DOMAIN d.files
        THEN [exc |-> "", name |-> dat_name, warned |-> FALSE]
        ELSE IF dpath = <<>>
        THEN NotFound       \* os.listdir('')
        ELSE LET candidates ==
                    {c \in listdir(d, dpath) :
                        Len(c) >= 4 /\ SubSeq(c, Len(c) - 3, Len(c)) = <<".", "d", "a", "t">>}
             IN  CHOOSE r \in
                   {IF matches = <<>> THEN NotFound
                    ELSE [exc |-> "",
                          name |-> CHOOSE c \in candidates : join(dpath, c) = matches[1],
                          warned |-> TRUE] :
                      matches \in {get_close_matches(join(dpath, dat_name),
                                                     {join(dpath, c) : c \in candidates})}} : TRUE

(***************************************************************************)
(* Raw(arg): the object, or the exception of the constructor.  The object  *)
(* is [pc, exc, path, dat, warned, dims, bitdepth, thicknesses, model,     *)
(* filesize] and, for what was done with it, [op, args, ret, hist]: the    *)
(* last operation, its arguments, what it returned and the operations      *)
(* before it.  pc is "Raw" once constructed and "failed" otherwise.        *)
(***************************************************************************)
Raw(d, arg) ==
    LET \* Dataset.__init__: os.path.normpath
        path == split(IF Len(arg) > 2 /\ SubSeq(arg, 1, 2) = <<".", "/">>
                      THEN SubSeq(arg, 3, Len(arg)) ELSE arg)
        Failed(exc, found) ==
            [pc |-> "failed", exc |-> exc, path |-> path, dat |-> found.name,
             warned |-> found.warned, dims |-> <<0, 0, 0>>, bitdepth |-> "",
             thicknesses |-> <<0, 0, 0>>, model |-> <<>>, filesize |-> 0,
             op |-> "Raw", args |-> <<>>, ret |-> <<>>, hist |-> <<>>]
        Loaded(found, m) ==
            LET bitdepth == bitdepth_from_format(m.format[1])
            IN  IF IsNone(bitdepth) THEN Failed("ValueError", found)
                ELSE IF path \notin DOMAIN d.files THEN Failed("FileNotFoundError", found)
                ELSE CHOOSE r \in
                       {IF determine_bit_depth(size, m.dimensions[1]).raised
                        THEN Failed("Exception", found)
                        ELSE [pc |-> "Raw", exc |-> "", path |-> path,
                              dat |-> found.name, warned |-> found.warned,
                              dims |-> m.dimensions[1], bitdepth |-> bitdepth[1],
                              thicknesses |-> m.thickness[1], model |-> m.model[1],
                              filesize |-> size,
                              op |-> "Raw", args |-> <<>>, ret |-> <<>>, hist |-> <<>>] :
                          size \in {Len(d.files[path].data) * itemsize(d.files[path].dtype)}} : TRUE
    IN  CHOOSE r \in
          {IF found.exc # "" THEN Failed(found.exc, found)
           ELSE CHOOSE q \in
                  {IF IsNone(metadata) THEN Failed("ValueError", found)
                   ELSE Loaded(found, metadata[1]) :
                     metadata \in {read(d.files[Path(path.dir, found.name)].data)}} : TRUE :
             found \in {find_dat(d, path)}} : TRUE

\* the other variables of the model, which no conversion touches
Others == <<datFile, rawFile, rd, wr, dbd, raw, sc>>

OthersIdle ==
    /\ datFile = NoFile
    /\ rawFile = NoRaw
    /\ rd = RdIdle
    /\ wr = WrIdle
    /\ dbd = DbdIdle
    /\ raw = RawNone
    /\ sc = ScIdle

\* raw = Raw(arg) for a volume of the disk, named with or without "./"
OpenRaw ==
    /\ obj.pc = "none"
    /\ \E p \in {q \in DOMAIN disk.files : disk.files[q].kind = "raw"} :
          \E arg \in {join(p.dir, p.name), <<".", "/">> \o join(p.dir, p.name)} :
             \E r \in {Raw(disk, arg)} : obj' = r
    /\ UNCHANGED <<disk, Others>>

(***************************************************************************)
(* Raw(path) among the .dat files of a directory: a volume v.raw in the    *)
(* current directory or in d, next to any of five .dat files.              *)
(***************************************************************************)
DatNames ==
    {n \o <<".", "d", "a", "t">> :
        n \in {<<"v">>, <<"v", "1">>, <<"v", "2">>, <<"w">>,
               <<"z", "z", "z", "z", "z", "z", "z", "z">>}}

InitFindDat ==
    /\ \E dir \in {<<>>, <<"d">>}, names \in SUBSET DatNames :
          disk = [dirs |-> {dir},
                  files |-> [q \in {Path(dir, <<"v", ".", "r", "a", "w">>)}
                                     \cup {Path(dir, n) : n \in names} |->
                               IF q.name \in names
                               THEN File("dat", "", "", 0, 0,
                                         DatText(<<"v">>, <<1, 1, 2>>, <<One, One, One>>,
                                                 <<"UCHAR">>, DefaultModel))
                               ELSE File("raw", "uint8", "", 0, 0, <<1, 2>>)]]
    /\ obj = NoDataset
    /\ OthersIdle

NextFindDat == OpenRaw

SpecFindDat == InitFindDat /\ [][NextFindDat]_vars

(***************************************************************************)
(* Raw.minmax.  A chunk is what np.fromfile(buffer, count=chunk_size)      *)
(* gives at a byte offset: up to chunk_size items, fewer at the end of the *)
(* file.  np.min of an empty chunk raises ValueError.                      *)
(***************************************************************************)
\* minmax with chunks of one slice, the loop never entered
minmax_top_slice(file, dims, bitdepth) ==
    LET chunk == {file.data[i] : i \in {k \in 1..Len(file.data) : k <= dims[1] * dims[2]}}
        Least(S) == CHOOSE m \in S : \A k \in S : m <= k
    IN  IF chunk = {} THEN [exc |-> "ValueError", v |-> <<>>]
        ELSE [exc |-> "", v |-> <<Least(chunk), Max(chunk)>>]

minmax(file, dims, bitdepth) ==
    LET chunk_size == dims[1] * dims[2] * itemsize(bitdepth)
        Chunk(offset) ==
            LET first == (offset \div itemsize(bitdepth)) + 1
            IN  {file.data[i] : i \in {k \in first..Len(file.data) : k < first + chunk_size}}
        Least(S) == CHOOSE m \in S : \A k \in S : m <= k
        RECURSIVE Scan(_, _, _)
        Scan(idx, lowest_found_value, greatest_found_value) ==
            IF idx >= dims[3]
            THEN [exc |-> "", v |-> <<lowest_found_value, greatest_found_value>>]
            ELSE CHOOSE r \in
                   {IF chunk = {} THEN [exc |-> "ValueError", v |-> <<>>]
                    ELSE Scan(idx + 1, Least({lowest_found_value} \cup chunk),
                              Max({greatest_found_value} \cup chunk)) :
                      chunk \in {Chunk(idx * chunk_size)}} : TRUE
    IN  CHOOSE r \in
          {IF chunk = {} THEN [exc |-> "ValueError", v |-> <<>>]
           ELSE Scan(1, Least(chunk), Max(chunk)) :
             chunk \in {Chunk(0)}} : TRUE

\* the record of an operation once it has ended, kept in the history
Done(o) == Append(o.hist, [op |-> o.op, args |-> o.args, exc |-> o.exc])

\* raw.minmax
RawMinmax ==
    /\ obj.pc = "Raw" /\ obj.op = "Raw"
    /\ \E r \in {minmax(disk.files[obj.path], obj.dims, obj.bitdepth)} :
          obj' = [obj EXCEPT !.op = "minmax", !.args = <<>>, !.exc = r.exc, !.ret = r.v,
                             !.hist = Done(obj)]
    /\ UNCHANGED <<disk, Others>>

(***************************************************************************)
(* The bit depths of an export.  "" stands for None.  "float64" is a numpy *)
(* dtype that no export supports and "uint7" is no numpy dtype at all:     *)
(* np.dtype('uint7') raises TypeError.                                     *)
(***************************************************************************)
RAW_BITDEPTHS == {"uint8", "uint16", "float32"}

BitdepthArgs == RAW_BITDEPTHS \cup {"float64", "uint7"}

\* np.issubdtype(np.dtype(bitdepth), np.integer)
IsInteger(bitdepth) == bitdepth \in {"uint8", "uint16"}

\* np.iinfo(np.dtype(bitdepth)).max
iinfo_max(bitdepth) == IF bitdepth = "uint8" THEN Uint8Max ELSE Uint16Max

(***************************************************************************)
(* scale(x, old_min, old_max, new_min, new_max) for the elements of an     *)
(* ndarray x, new_min and new_max the bounds of bitdepth, and the cast to  *)
(* bitdepth after it, as [unit, data].  A division by zero in an ndarray   *)
(* raises nothing: it warns and gives NaN for 0 / 0.  The cast of NaN to   *)
(* an integer type is undefined, nan_as is what it gives.  Values above    *)
(* the minimum of a float32 volume are small integers, for which float32   *)
(* and float64 arithmetic agree.                                           *)
(***************************************************************************)
scale(x, old_min, old_max, bitdepth, nan_as) ==
    IF old_min = old_max
    THEN IF IsInteger(bitdepth)
         THEN [unit |-> "",
               data |-> [i \in DOMAIN x |-> IF nan_as = "max" THEN iinfo_max(bitdepth) ELSE 0]]
         ELSE [unit |-> "nan", data |-> x]
    ELSE IF IsInteger(bitdepth)
    THEN [unit |-> "",
          data |-> [i \in DOMAIN x |->
                      floor(linear_scale(x[i], old_min, old_max, 0, iinfo_max(bitdepth)))]]
    ELSE [unit |-> "scaled", data |-> x]

(***************************************************************************)
(* array_to_image: the image that is saved and the exception of the save.  *)
(* PIL holds float32 and float64 arrays as mode F, which a PNG cannot      *)
(* store.                                                                  *)
(***************************************************************************)
array_to_image(arr, dtype, unit, width, height, image_bitdepth, old_bounds, ext, nan_as) ==
    CHOOSE r \in
      {[exc |-> IF ~IsInteger(image_bitdepth) /\ ext = <<"p", "n", "g">> THEN "OSError" ELSE "",
        file |-> File("image", IF image_bitdepth = "float64" THEN "float32" ELSE image_bitdepth,
                      slice.unit, height, width, slice.data)] :
         slice \in {IF dtype = image_bitdepth THEN [unit |-> unit, data |-> arr]
                    ELSE IF unit # "" THEN [unit |-> unit, data |-> arr]
                    ELSE scale(arr, old_bounds[1], old_bounds[2], image_bitdepth, nan_as)}} : TRUE

\* f'{img_fname}_{idx:0{len(str(z))}d}.{ext}' without the padding
SliceName_unpadded(img_fname, idx, z, ext) ==
    img_fname \o <<"_">> \o StrOfNat(idx) \o <<".">> \o ext

\* f'{img_fname}_{idx:0{len(str(z))}d}.{ext}'
SliceName(img_fname, idx, z, ext) ==
    img_fname \o <<"_">> \o Zeros(Len(StrOfNat(z)) - Len(StrOfNat(idx))) \o StrOfNat(idx)
        \o <<".">> \o ext

(***************************************************************************)
(* Raw.to_slices(ext=ext, bitdepth=bitdepth, dryrun=dryrun): the exception *)
(* raised and the disk it leaves.                                          *)
(***************************************************************************)
Raw_to_slices(d, self, ext, bitdepth, dryrun, nan_as) ==
    LET img_filename == splitext(self.path.name)[1]
        target_output_directory == join(self.path.dir, img_filename)
        made == IF dryrun THEN d ELSE [d EXCEPT !.dirs = @ \cup {target_output_directory}]
        file == d.files[self.path]
        n_pixels == self.dims[1] * self.dims[2]
        \* the next chunk of Raw.slices
        NextSlice(idx) ==
            SubSeq(file.data, idx * n_pixels + 1,
                   IF (idx + 1) * n_pixels <= Len(file.data) THEN (idx + 1) * n_pixels
                   ELSE Len(file.data))
        RECURSIVE Save(_, _, _)
        Save(idx, files, old_bounds) ==
            IF idx >= self.dims[3] THEN [exc |-> "", disk |-> [made EXCEPT !.files = files]]
            ELSE IF Len(NextSlice(idx)) # n_pixels      \* reshape(self.y, self.x)
            THEN [exc |-> "ValueError", disk |-> [made EXCEPT !.files = files]]
            ELSE CHOOSE r \in
                   {IF dryrun THEN Save(idx + 1, files, old_bounds)
                    ELSE IF img.exc # ""
                    THEN [exc |-> img.exc, disk |-> [made EXCEPT !.files = files]]
                    ELSE Save(idx + 1,
                              Put(files,
                                  Path(target_output_directory,
                                       SliceName(img_filename, idx, self.dims[3], ext)),
                                  img.file),
                              old_bounds) :
                      img \in {array_to_image(NextSlice(idx), self.bitdepth, file.unit,
                                              self.dims[1], self.dims[2], bitdepth,
                                              old_bounds, ext, nan_as)}} : TRUE
    IN  CHOOSE r \in
          {IF old.exc # "" THEN [exc |-> old.exc, disk |-> made]
           ELSE IF bitdepth = "uint7" THEN [exc |-> "TypeError", disk |-> made]
           ELSE Save(0, made.files, old.v) :
             old \in {IF IsInteger(self.bitdepth)
                      THEN [exc |-> "", v |-> <<0, iinfo_max(self.bitdepth)>>]
                      ELSE minmax(file, self.dims, self.bitdepth)}} : TRUE

(***************************************************************************)
(* Raw.to_raw(path, bitdepth=bitdepth, dryrun=dryrun) without a shape: the *)
(* exception raised and the disk it leaves.  The output is opened, and so  *)
(* created or truncated, before the first chunk is read.                   *)
(***************************************************************************)
Raw_to_raw(d, self, path, bitdepth_arg, dryrun, nan_as) ==
    LET bitdepth == IF bitdepth_arg = "" THEN self.bitdepth ELSE bitdepth_arg
        file == d.files[self.path]
        img_pixel_count == self.dims[1] * self.dims[2]
        raw_name == splitext(path.name)[1]
        \* buffer.seek(idx * slice_bytes_count); np.fromfile(count=img_pixel_count)
        Chunk(idx) ==
            SubSeq(file.data, idx * img_pixel_count + 1,
                   IF (idx + 1) * img_pixel_count <= Len(file.data)
                   THEN (idx + 1) * img_pixel_count ELSE Len(file.data))
        RECURSIVE Chunks(_)
        Chunks(idx) == IF idx >= self.dims[3] THEN <<>> ELSE Chunk(idx) \o Chunks(idx + 1)
        Written(old_bounds) ==
            CHOOSE r \in
              {IF dryrun
               THEN [exc |-> "",
                     disk |-> [d EXCEPT !.files = Put(@, path, File("raw", bitdepth, "", 0, 0, <<>>))]]
               ELSE [exc |-> w.exc,
                     disk |-> [d EXCEPT !.files =
                                 IF w.opened
                                 THEN Put(Put(@, path, File("raw", bitdepth, bytes.unit, 0, 0, bytes.data)),
                                          Path(path.dir, raw_name \o <<".", "d", "a", "t">>),
                                          File("dat", "", "", 0, 0, w.text))
                                 ELSE Put(@, path, File("raw", bitdepth, bytes.unit, 0, 0, bytes.data))]] :
                 bytes \in {IF file.unit # "" THEN [unit |-> file.unit, data |-> Chunks(0)]
                            ELSE scale(Chunks(0), old_bounds[1], old_bounds[2], bitdepth, nan_as)},
                 w \in {write([stem |-> raw_name],
                              PyTuple([k \in 1..3 |-> PyInt(self.dims[k])]),
                              PyTuple([k \in 1..3 |-> PyFloat(self.thicknesses[k])]),
                              bitdepth, self.model)}} : TRUE
    IN  IF bitdepth \notin RAW_BITDEPTHS THEN [exc |-> "NotImplementedError", disk |-> d]
        ELSE CHOOSE r \in
               {IF old.exc # "" THEN [exc |-> old.exc, disk |-> d] ELSE Written(old.v) :
                  old \in {IF IsInteger(self.bitdepth)
                           THEN [exc |-> "", v |-> <<0, iinfo_max(self.bitdepth)>>]
                           ELSE minmax(file, self.dims, self.bitdepth)}} : TRUE

\* the inputs of the exports
SliceExts == {<<"p", "n", "g">>, <<"t", "i", "f">>}

NanCasts == {"zero", "max"}

OutRaw == Path(<<"d">>, <<"o", ".", "r", "a", "w">>)

\* raw.to_slices(ext=ext, bitdepth=bitdepth, dryrun=dryrun)
RawToSlices ==
    /\ obj.pc = "Raw" /\ obj.op = "Raw"
    /\ \E ext \in SliceExts, bitdepth \in BitdepthArgs, dryrun \in BOOLEAN, nan_as \in NanCasts :
          \E r \in {Raw_to_slices(disk, obj, ext, bitdepth, dryrun, nan_as)} :
             /\ disk' = r.disk
             /\ obj' = [obj EXCEPT !.op = "to_slices",
                                   !.args = [ext |-> ext, bitdepth |-> bitdepth, dryrun |-> dryrun],
                                   !.exc = r.exc, !.ret = <<>>, !.hist = Done(obj)]
    /\ UNCHANGED Others

\* raw.to_raw(path, bitdepth=bitdepth, dryrun=dryrun)
RawToRaw ==
    /\ obj.pc = "Raw" /\ obj.op = "Raw"
    /\ \E bitdepth \in BitdepthArgs \cup {""}, dryrun \in BOOLEAN, nan_as \in NanCasts :
          \E r \in {Raw_to_raw(disk, obj, OutRaw, bitdepth, dryrun, nan_as)} :
             /\ disk' = r.disk
             /\ obj' = [obj EXCEPT !.op = "to_raw",
                                   !.args = [path |-> OutRaw, bitdepth |-> bitdepth, dryrun |-> dryrun],
                                   !.exc = r.exc, !.ret = <<>>, !.hist = Done(obj)]
    /\ UNCHANGED Others

(***************************************************************************)
(* A directory of slices.  The names of a directory are sets of strings;   *)
(* sorted(names) is the list that Python's sorted makes of them.           *)
(***************************************************************************)
RECURSIVE sorted(_)
sorted(names) ==
    IF names = {} THEN <<>>
    ELSE LET first == CHOOSE n \in names : \A m \in names \ {n} : StrLess(n, m)
         IN  <<first>> \o sorted(names \ {first})

\* is_slice(path) for the file name of the directory dir: the name matches
\* ^<basename of dir>.+\d+\.\w{1,4}$ and PIL can open the file
is_slice(d, dir, name) ==
    LET prefix == split(dir).name
        bname == splitext(name)[1]
        ext == splitext(name)[2]
    IN  /\ Len(ext) \in 2..5
        /\ \A k \in 2..Len(ext) : ext[k] # "." /\ ext[k] # "/" /\ ext[k] # "-" /\ ext[k] # " "
        /\ Len(bname) >= Len(prefix) + 2
        /\ SubSeq(bname, 1, Len(prefix)) = prefix
        /\ IsDigit(bname[Len(bname)])
        /\ d.files[Path(dir, name)].kind = "image"

\* np.unique of the pixels of the first, the middle and the last slice
infer_metatype_from_directory(d, path) ==
    LET slices == sorted({f \in listdir(d, path) : is_slice(d, path, f)})
        nunique(f) == Cardinality({d.files[Path(path, f)].data[i] :
                                      i \in DOMAIN d.files[Path(path, f)].data})
        tested == {IF d.files[Path(path, f)].unit = "nan" THEN 1 ELSE nunique(f) :
                      f \in {slices[1], slices[(Len(slices) \div 2) + 1], slices[Len(slices)]}}
    IN  IF slices = <<>> THEN [exc |-> "Exception", v |-> ""]
        ELSE IF tested = {1} THEN [exc |-> "Exception", v |-> ""]
        ELSE IF \E n \in tested : n > 2 THEN [exc |-> "", v |-> "volume"]
        ELSE [exc |-> "", v |-> "voxel"]

\* Slices.paths, as the names of the files
paths(d, path) == sorted({f \in listdir(d, path) : is_slice(d, path, f)})

(***************************************************************************)
(* Slices(path): the object, or the exception of the constructor.  The     *)
(* object is [pc, exc, path, metatype, ext, paths, height, width, count,   *)
(* bitdepth] and [op, args, ret, hist] as for a Raw; hist is the history   *)
(* of the object that made the directory.                                  *)
(***************************************************************************)
Slices(d, path, hist) ==
    LET Failed(exc) ==
            [pc |-> "failed", exc |-> exc, path |-> path, metatype |-> "", ext |-> <<>>,
             paths |-> <<>>, height |-> 0, width |-> 0, count |-> 0, bitdepth |-> "",
             op |-> "Slices", args |-> <<>>, ret |-> <<>>, hist |-> hist]
        names == {f \in listdir(d, path) : is_slice(d, path, f)}
        slice_filetypes == {splitext(f)[2] : f \in names}
    IN  \* Dataset.__init__: infer_metatype_from_path, infer_filetype_from_path
        IF splitext(split(path).name)[2] # <<>> \/ path \notin d.dirs \/ names = {}
        THEN Failed("Exception")
        ELSE CHOOSE r \in
               {IF metatype.exc # "" THEN Failed(metatype.exc)
                ELSE IF Cardinality(slice_filetypes) > 1 THEN Failed("Exception")
                ELSE [pc |-> "Slices", exc |-> "", path |-> path, metatype |-> metatype.v,
                      ext |-> Tail(CHOOSE e \in slice_filetypes : TRUE),
                      paths |-> ps,
                      height |-> d.files[Path(path, ps[1])].h,
                      width |-> d.files[Path(path, ps[1])].w,
                      count |-> Len(ps),
                      bitdepth |-> d.files[Path(path, ps[1])].dtype,
                      op |-> "Slices", args |-> <<>>, ret |-> <<>>, hist |-> hist] :
                  metatype \in {infer_metatype_from_directory(d, path)},
                  ps \in {paths(d, path)}} : TRUE

\* fname2idx: the digits that end the name, after a character that is none
fname2idx(fname) ==
    LET bname == splitext(fname)[1]
        starts == {k \in 2..Len(bname) :
                     /\ ~IsDigit(bname[k - 1])
                     /\ \A j \in k..Len(bname) : IsDigit(bname[j])}
    IN  IF starts = {} THEN -1
        ELSE IntOf(SubSeq(bname, CHOOSE k \in starts : TRUE, Len(bname)))

SLICE_BITDEPTHS == {"uint8", "uint16", "float32"}

\* thickness inferred from the name of the directory, 1.0 per axis by default
infer_slice_thickness_from_path(path) == PyTuple([k \in 1..3 |-> PyFloat(One)])

(***************************************************************************)
(* Slices.to_raw(path, bitdepth=bitdepth, dryrun=dryrun): the exception    *)
(* raised, the disk it leaves and the slices in the order of their writes. *)
(* path <<>> stands for None.                                              *)
(***************************************************************************)
Slices_to_raw(d, self, path_arg, bitdepth_arg, dryrun) ==
    LET bitdepth == IF bitdepth_arg = "" THEN self.bitdepth ELSE bitdepth_arg
        path == IF path_arg = <<>>
                THEN Path(split(self.path).dir,
                          splitext(split(self.path).name)[1] \o <<".", "r", "a", "w">>)
                ELSE path_arg
        raw_name == splitext(path.name)[1]
        image(k) == d.files[Path(self.path, self.paths[k])]
        RECURSIVE Bytes(_)
        Bytes(k) == IF k > Len(self.paths) THEN <<>> ELSE image(k).data \o Bytes(k + 1)
        dtypes == {image(k).dtype : k \in 1..Len(self.paths)}
        out == File("raw", IF Cardinality(dtypes) = 1 THEN image(1).dtype ELSE "mixed",
                    image(1).unit, 0, 0, Bytes(1))
    IN  IF bitdepth \notin RAW_BITDEPTHS
        THEN [exc |-> "NotImplementedError", disk |-> d, order |-> <<>>]
        ELSE IF dryrun THEN [exc |-> "", disk |-> d, order |-> <<>>]
        ELSE CHOOSE r \in
               {[exc |-> w.exc,
                 disk |-> [d EXCEPT !.files =
                             IF w.opened
                             THEN Put(Put(@, path, out),
                                      Path(path.dir, raw_name \o <<".", "d", "a", "t">>),
                                      File("dat", "", "", 0, 0, w.text))
                             ELSE Put(@, path, out)],
                 order |-> self.paths] :
                  w \in {write([stem |-> raw_name],
                               PyTuple(<<PyInt(self.width), PyInt(self.height), PyInt(self.count)>>),
                               infer_slice_thickness_from_path(self.path),
                               bitdepth, DefaultModel)}} : TRUE

(***************************************************************************)
(* Slices.to_slices(path, ext=ext, bitdepth=bitdepth, dryrun=dryrun).  The *)
(* range of float32 slices is what Slices.minmax finds in their 8-bit      *)
(* reading, so their scaled values are not evaluated.                      *)
(***************************************************************************)
Slices_to_slices(d, self, path, ext, bitdepth_arg, dryrun, nan_as) ==
    LET img_bitdepth == IF bitdepth_arg = "" THEN self.bitdepth ELSE bitdepth_arg
        img_filename == splitext(split(path).name)[1]
        made == IF dryrun THEN d ELSE [d EXCEPT !.dirs = @ \cup {path}]
        image(k) == d.files[Path(self.path, self.paths[k])]
        RECURSIVE Save(_, _)
        Save(idx, files) ==
            IF idx >= Len(self.paths) THEN [exc |-> "", disk |-> [made EXCEPT !.files = files]]
            ELSE CHOOSE r \in
                   {IF dryrun THEN Save(idx + 1, files)
                    ELSE IF img.exc # ""
                    THEN [exc |-> img.exc, disk |-> [made EXCEPT !.files = files]]
                    ELSE Save(idx + 1,
                              Put(files,
                                  Path(path, SliceName(img_filename, idx, self.count, ext)),
                                  img.file)) :
                      img \in {array_to_image(image(idx + 1).data, image(idx + 1).dtype,
                                              IF IsInteger(self.bitdepth) THEN image(idx + 1).unit
                                              ELSE IF image(idx + 1).dtype = img_bitdepth
                                              THEN image(idx + 1).unit ELSE "scaled",
                                              image(idx + 1).w, image(idx + 1).h, img_bitdepth,
                                              <<0, iinfo_max(self.bitdepth)>>, ext, nan_as)}} : TRUE
    IN  IF img_bitdepth \notin SLICE_BITDEPTHS THEN [exc |-> "NotImplementedError", disk |-> d]
        ELSE Save(0, made.files)

\* to_obj, to_out or to_xyz called at once, without the test of the metatype
Slices_to_pcd_any_metatype(d, self, path, dryrun) ==
    LET ext == splitext(path.name)[2]
    IN  IF ext \notin {<<".", "o", "b", "j">>, <<".", "o", "u", "t">>, <<".", "x", "y", "z">>}
        THEN [exc |-> "ValueError", disk |-> d, read |-> <<>>]
        ELSE [exc |-> "",
              disk |-> IF dryrun THEN d
                       ELSE [d EXCEPT !.files = Put(@, path, File("pcd", Tail(ext), "", 0, 0, {}))],
              read |-> self.paths]

(***************************************************************************)
(* Slices.to_pcd(path, dryrun=dryrun) and the writers to_obj, to_out and   *)
(* to_xyz behind it: the exception raised, the disk it leaves and the      *)
(* slices that were read.  A point is <<index of the slice, row, column>>  *)
(* of a pixel that is not zero in the 8-bit reading of its slice.          *)
(***************************************************************************)
Slices_to_pcd(d, self, path, dryrun) ==
    LET ext == splitext(path.name)[2]
        \* sorted(self.paths, key=fname2idx), a stable sort
        RECURSIVE ByIndex(_)
        ByIndex(ks) ==
            IF ks = {} THEN <<>>
            ELSE LET k == CHOOSE a \in ks :
                            \A b \in ks \ {a} :
                               \/ fname2idx(self.paths[a]) < fname2idx(self.paths[b])
                               \/ fname2idx(self.paths[a]) = fname2idx(self.paths[b]) /\ a < b
                 IN  <<self.paths[k]>> \o ByIndex(ks \ {k})
        files == ByIndex(1..Len(self.paths))
        image(k) == d.files[Path(self.path, files[k])]
        Gray(k, i) == IF image(k).dtype = "uint16" THEN image(k).data[i] \div 256
                      ELSE image(k).data[i]
        points == {<<k, ((i - 1) \div self.width) + 1, ((i - 1) % self.width) + 1>> :
                     k \in 1..Len(files), i \in 1..(self.height * self.width)}
        nonzero == {p \in points : Gray(p[1], (p[2] - 1) * self.width + p[3]) # 0}
    IN  IF self.metatype # "voxel" THEN [exc |-> "ValueError", disk |-> d, read |-> <<>>]
        ELSE IF ext \notin {<<".", "o", "b", "j">>, <<".", "o", "u", "t">>, <<".", "x", "y", "z">>}
        THEN [exc |-> "ValueError", disk |-> d, read |-> <<>>]
        ELSE IF \E k \in 1..Len(files) : image(k).h # self.height \/ image(k).w # self.width
        THEN [exc |-> "ValueError", disk |-> d, read |-> files]
        ELSE [exc |-> "",
              disk |-> IF dryrun THEN d
                       ELSE [d EXCEPT !.files = Put(@, path, File("pcd", Tail(ext), "", 0, 0, nonzero))],
              read |-> files]

\* the directory of an export to slices and the files of a point cloud
OutSlices == <<"d", "/", "t">>

OutPcds ==
    {Path(<<"d">>, <<"p", ".">> \o e) :
        e \in {<<"o", "b", "j">>, <<"o", "u", "t">>, <<"x", "y", "z">>, <<"p", "n", "g">>}}

\* slices = Slices(path) for a directory of the disk other than d; a Raw must
\* have exported before
OpenSlices ==
    /\ obj.pc = "none" \/ (obj.pc = "Raw" /\ obj.op = "to_slices")
    /\ \E path \in disk.dirs \ {<<"d">>} :
          \E r \in {Slices(disk, path, IF obj.pc = "none" THEN <<>> ELSE Done(obj))} : obj' = r
    /\ UNCHANGED <<disk, Others>>

\* slices.to_raw(path, bitdepth=bitdepth, dryrun=dryrun)
SlicesToRaw ==
    /\ obj.pc = "Slices" /\ obj.op = "Slices"
    /\ \E path \in {<<>>, OutRaw}, bitdepth \in BitdepthArgs \cup {""}, dryrun \in BOOLEAN :
          \E r \in {Slices_to_raw(disk, obj, path, bitdepth, dryrun)} :
             /\ disk' = r.disk
             /\ obj' = [obj EXCEPT !.op = "to_raw",
                                   !.args = [path |-> path, bitdepth |-> bitdepth, dryrun |-> dryrun],
                                   !.exc = r.exc, !.ret = r.order, !.hist = Done(obj)]
    /\ UNCHANGED Others

\* slices.to_slices(path, ext=ext, bitdepth=bitdepth, dryrun=dryrun)
SlicesToSlices ==
    /\ obj.pc = "Slices" /\ obj.op = "Slices"
    /\ \E ext \in SliceExts, bitdepth \in BitdepthArgs \cup {""}, dryrun \in BOOLEAN,
          nan_as \in NanCasts :
          \E r \in {Slices_to_slices(disk, obj, OutSlices, ext, bitdepth, dryrun, nan_as)} :
             /\ disk' = r.disk
             /\ obj' = [obj EXCEPT !.op = "to_slices",
                                   !.args = [ext |-> ext, bitdepth |-> bitdepth, dryrun |-> dryrun],
                                   !.exc = r.exc, !.ret = <<>>, !.hist = Done(obj)]
    /\ UNCHANGED Others

\* slices.to_pcd(path, dryrun=dryrun)
SlicesToPcd ==
    /\ obj.pc = "Slices" /\ obj.op = "Slices"
    /\ \E path \in OutPcds, dryrun \in BOOLEAN :
          \E r \in {Slices_to_pcd(disk, obj, path, dryrun)} :
             /\ disk' = r.disk
             /\ obj' = [obj EXCEPT !.op = "to_pcd",
                                   !.args = [path |-> path, dryrun |-> dryrun],
                                   !.exc = r.exc, !.ret = r.read, !.hist = Done(obj)]
    /\ UNCHANGED Others

(***************************************************************************)
(* The volumes of the model: v.raw and v.dat in the directory d.  The      *)
(* voxels of a volume are stored at the bit depth its .dat declares.       *)
(***************************************************************************)
VolumeDims == {<<1, 1, 1>>, <<2, 1, 1>>, <<1, 1, 2>>, <<3, 1, 1>>, <<1, 1, 3>>}

TallZ == 10     \* the slices of the tall volume

VoxelValues(bitdepth) ==
    CASE bitdepth = "uint8" -> {0, 1, Uint8Max}
      [] bitdepth = "uint16" -> {0, 1, Uint16Max}
      [] OTHER -> {0, 1, 2}

\* the thickness of a source .dat, as text and as the float it reads as
Thicknesses ==
    {[text |-> <<"1", ".", "0">>, v |-> One],
     [text |-> <<"0", ".", "0", "0", "0", "0", "1">>, v |-> One \div 100000]}

\* the .dat the scanner wrote next to the volume
SourceDat(dims, bitdepth, th) ==
    [DatText(<<"v">>, dims, <<One, One, One>>, format_from_bitdepth(bitdepth)[1], DefaultModel)
       EXCEPT ![3] = <<"SliceThickness:", " ">> \o th \o <<" ">> \o th \o <<" ">> \o th]

VolumeDisk(dims, bitdepth, th, voxels) ==
    [dirs |-> {<<"d">>},
     files |-> [q \in {Path(<<"d">>, <<"v", ".", "r", "a", "w">>),
                        Path(<<"d">>, <<"v", ".", "d", "a", "t">>)} |->
                  IF q.name = <<"v", ".", "r", "a", "w">>
                  THEN File("raw", bitdepth, "", 0, 0, voxels)
                  ELSE File("dat", "", "", 0, 0, SourceDat(dims, bitdepth, th))]]

InitVolume ==
    \E bitdepth \in {"uint8", "uint16", "float32"} :
       \/ \E dims \in VolumeDims, th \in Thicknesses :
             /\ th.v = One \/ dims = <<1, 1, 1>>
             /\ \E voxels \in [1..prod(dims) -> VoxelValues(bitdepth)] :
                   disk = VolumeDisk(dims, bitdepth, th.text, voxels)
       \/ disk = VolumeDisk(<<2, 1, TallZ>>, bitdepth, <<"1", ".", "0">>,
                            [i \in 1..(2 * TallZ) |-> IF i % 3 = 0 THEN 1 ELSE 0])

(***************************************************************************)
(* A directory d/s of three slices that no export of the model wrote: the  *)
(* slices numbered 1, 2 and 10, named with or without padding, each 8-bit  *)
(* or 16-bit.  The first pixel of a slice is its number.  The slices are   *)
(* binary, grayscale or of one value each.                                 *)
(***************************************************************************)
SliceNumbers == <<1, 2, 10>>

InitSlices ==
    \E padded \in BOOLEAN, depth \in [1..3 -> {"uint8", "uint16"}],
       pixels \in {<<0>>, <<0, 100>>, <<>>} :
       LET name(k) == IF padded THEN SliceName(<<"s">>, SliceNumbers[k], 10, <<"p", "n", "g">>)
                      ELSE SliceName_unpadded(<<"s">>, SliceNumbers[k], 10, <<"p", "n", "g">>)
           image(k) == IF pixels = <<>>
                       THEN File("image", depth[k], "", 1, 2, <<SliceNumbers[k], SliceNumbers[k]>>)
                       ELSE File("image", depth[k], "", 1, 1 + Len(pixels),
                                 <<SliceNumbers[k]>> \o pixels)
       IN  disk = [dirs |-> {<<"d">>, <<"d", "/", "s">>},
                   files |-> [q \in {Path(<<"d", "/", "s">>, name(k)) : k \in 1..3} |->
                                image(CHOOSE k \in 1..3 : q.name = name(k))]]

InitConvert ==
    /\ InitVolume \/ InitSlices
    /\ obj = NoDataset
    /\ OthersIdle

NextConvert ==
    \/ OpenRaw
    \/ RawMinmax
    \/ RawToSlices
    \/ RawToRaw
    \/ OpenSlices
    \/ SlicesToRaw
    \/ SlicesToSlices
    \/ SlicesToPcd

SpecConvert == InitConvert /\ [][NextConvert]_vars

(***************************************************************************)
(* Raw.slices, one step per array.  Each access to the property makes a    *)
(* generator that opens the file anew; the object keeps, for the last one, *)
(* the slices left and the position in the file as args and the arrays     *)
(* yielded as ret, each with the byte offset it was read at.               *)
(***************************************************************************)
MaxAccesses == 2    \* accesses to Raw.slices in one behaviour

\* raw.slices: a new generator, whatever became of the one before
RawSlices ==
    /\ obj.pc = "Raw" /\ obj.op \in {"Raw", "slices"}
    /\ Len(obj.hist) < MaxAccesses
    /\ obj' = [obj EXCEPT !.op = "slices", !.args = [idx |-> 0, pos |-> 0], !.exc = "",
                          !.ret = <<>>, !.hist = Done(obj)]
    /\ UNCHANGED <<disk, Others>>

\* next() of the generator: np.fromfile(buffer, count=n_pixels).reshape(y, x)
RawSlicesNext ==
    /\ obj.pc = "Raw" /\ obj.op = "slices" /\ obj.exc = ""
    /\ LET n_pixels == obj.dims[1] * obj.dims[2]
           data == disk.files[obj.path].data
           pos == obj.args.pos
           chunk == SubSeq(data, pos + 1,
                           IF pos + n_pixels <= Len(data) THEN pos + n_pixels ELSE Len(data))
       IN  obj' = IF obj.args.idx >= obj.dims[3]
                  THEN [obj EXCEPT !.exc = "StopIteration"]
                  ELSE IF Len(chunk) # n_pixels
                  THEN [obj EXCEPT !.exc = "ValueError",
                                   !.args = [idx |-> obj.args.idx, pos |-> pos + Len(chunk)]]
                  ELSE [obj EXCEPT !.args = [idx |-> obj.args.idx + 1, pos |-> pos + n_pixels],
                                   !.ret = Append(@, [offset |-> pos * itemsize(obj.bitdepth),
                                                      data |-> chunk])]
    /\ UNCHANGED <<disk, Others>>

\* volumes of two or three slices whose file holds the voxels the .dat
\* declares, one less or one more
InitIterate ==
    /\ \E dims \in {<<1, 1, 2>>, <<2, 1, 2>>, <<1, 1, 3>>},
          bitdepth \in RAW_BITDEPTHS, extra \in {-1, 0, 1} :
          \E voxels \in [1..(prod(dims) + extra) -> {0, 1}] :
             disk = VolumeDisk(dims, bitdepth, <<"1", ".", "0">>, voxels)
    /\ obj = NoDataset
    /\ OthersIdle

NextIterate == OpenRaw \/ RawSlices \/ RawSlicesNext

SpecIterate == InitIterate /\ [][NextIterate]_vars

(***************************************************************************)
(* dat.read of a legacy NSI file: the five lines of an NSI file in any     *)
(* order, the resolution as the tag <Resolution X=".." Y=".." Z=".."/>,    *)
(* indented or not.                                                        *)
(***************************************************************************)
InitLegacy ==
    /\ \E res \in {DfRes, Tail(DfRes)} :
          \E f \in DistinctSeqs({NsiName, res, NsiTh, NsiFormat, NsiModel}, 5) :
             /\ Len(f) = 5
             /\ datFile = TextFile(f)
    /\ rawFile = NoRaw
    /\ rd = RdIdle
    /\ wr = WrIdle
    /\ dbd = DbdIdle
    /\ raw = RawNone
    /\ sc = ScIdle
    /\ disk = NoDisk
    /\ obj = NoDataset

SpecLegacy == InitLegacy /\ [][NextRead]_vars

(***************************************************************************)
(* rawtools.nsihdr, the batch conversion of the .nsihdr volumes below a    *)
(* directory.  The NSI reader is not part of the sources: an .nsihdr file  *)
(* of the model holds what nsiefx reports of it, the slice size and the    *)
(* voxels, every volume with data_min = 0, data_max = 1 and a voxel size   *)
(* of 1.0.  obj is the running script: [pc, force, files, exc].            *)
(***************************************************************************)
MaxDepth == 2       \* slices of an .nsihdr volume

\* process(args, fp, export_path): the files after the call and its exception
process(d, force, fp, export_path) ==
    LET v == d.files[fp]
        depth == Len(v.data) \div (v.h * v.w)
        bname == splitext(fp.name)[1]
        dat_path == Path(fp.dir, bname \o <<".", "d", "a", "t">>)
        \* os.remove of the old files, with force only
        removed == [q \in {p \in DOMAIN d.files :
                             ~(force /\ p \in {export_path, dat_path})} |-> d.files[q]]
        \* cross_section n, scaled to uint16
        cross_section(n) ==
            scale(SubSeq(v.data, n * v.h * v.w + 1, (n + 1) * v.h * v.w), 0, 1, "uint16", "zero").data
        RECURSIVE slices(_)
        slices(n) == IF n >= depth THEN <<>> ELSE cross_section(n) \o slices(n + 1)
        \* open(export_path, 'ab')
        old == IF export_path \in DOMAIN removed THEN removed[export_path].data ELSE <<>>
    IN  CHOOSE r \in
          {IF w.exc # ""
           THEN [exc |-> w.exc,
                 disk |-> [d EXCEPT !.files =
                             IF w.opened THEN Put(removed, dat_path, File("dat", "", "", 0, 0, w.text))
                             ELSE removed]]
           ELSE [exc |-> "",
                 disk |-> [d EXCEPT !.files =
                             Put(Put(removed, dat_path, File("dat", "", "", 0, 0, w.text)),
                                 export_path, File("raw", "uint16", "", 0, 0, old \o slices(0)))]] :
             w \in {write([stem |-> bname], PyTuple(<<PyInt(v.w), PyInt(v.h), PyInt(depth)>>),
                          PyTuple(<<PyFloat(One), PyFloat(One), PyFloat(One)>>),
                          "uint16", DefaultModel)}} : TRUE

\* main(args), up to the loop: the .nsihdr files below args.path, in the
\* order of list(set(...)); without force, those whose .raw exists are dropped
NsihdrMain ==
    /\ obj.pc = "none"
    /\ \E force \in BOOLEAN :
          LET export_path(fp) == Path(fp.dir, splitext(fp.name)[1] \o <<".", "r", "a", "w">>)
              found == {p \in DOMAIN disk.files :
                          /\ Len(p.name) >= 7
                          /\ SubSeq(p.name, Len(p.name) - 6, Len(p.name)) = <<".", "n", "s", "i", "h", "d", "r">>}
              kept == IF force THEN found
                      ELSE {fp \in found : export_path(fp) \notin DOMAIN disk.files}
          IN  \E files \in DistinctSeqs(kept, Cardinality(kept)) :
                 /\ Len(files) = Cardinality(kept)
                 /\ obj' = [pc |-> "nsihdr", force |-> force, files |-> files, exc |-> ""]
    /\ UNCHANGED <<disk, Others>>

\* one pass of "for fp in args.files": skip the volume or process it
NsihdrVolume ==
    /\ obj.pc = "nsihdr"
    /\ obj.exc = ""
    /\ obj.files # <<>>
    /\ LET fp == Head(obj.files)
           export_path == Path(fp.dir, splitext(fp.name)[1] \o <<".", "r", "a", "w">>)
       IN  IF export_path \in DOMAIN disk.files /\ ~obj.force
           THEN /\ obj' = [obj EXCEPT !.files = Tail(@)]
                /\ disk' = disk
           ELSE \E r \in {process(disk, obj.force, fp, export_path)} :
                   /\ obj' = [obj EXCEPT !.files = Tail(@), !.exc = r.exc]
                   /\ disk' = r.disk
    /\ UNCHANGED Others

\* the volumes d/a.nsihdr and d/b.nsihdr, each with or without an older
\* .raw and an older .dat beside it
InitNsihdr ==
    /\ \E has_raw, has_dat \in [{"a", "b"} -> BOOLEAN] :
          \E voxels \in [{"a", "b"} -> UNION {[1..n -> {0, 1}] : n \in 1..MaxDepth}] :
             disk = [dirs |-> {<<"d">>},
                     files |->
                       [q \in {Path(<<"d">>, <<s>> \o <<".", "n", "s", "i", "h", "d", "r">>) :
                                 s \in {"a", "b"}}
                              \cup {Path(<<"d">>, <<s>> \o <<".", "r", "a", "w">>) :
                                      s \in {t \in {"a", "b"} : has_raw[t]}}
                              \cup {Path(<<"d">>, <<s>> \o <<".", "d", "a", "t">>) :
                                      s \in {t \in {"a", "b"} : has_dat[t]}} |->
                          IF splitext(q.name)[2] = <<".", "n", "s", "i", "h", "d", "r">>
                          THEN File("nsihdr", "float32", "", 1, 1, voxels[q.name[1]])
                          ELSE IF splitext(q.name)[2] = <<".", "r", "a", "w">>
                          THEN File("raw", "uint16", "", 0, 0, <<7>>)
                          ELSE File("dat", "", "", 0, 0, <<<<"o", "l", "d">>>>)]]
    /\ obj = NoDataset
    /\ OthersIdle

NextNsihdr == NsihdrMain \/ NsihdrVolume

SpecNsihdr == InitNsihdr /\ [][NextNsihdr]_vars

(***************************************************************************)
(* nsihdr2raw.py, the conversion of the .nsihdr projects named on the      *)
(* command line.  An .nsihdr file of the model holds what read_nsihdr      *)
(* takes from it: the <DataRange> of the header, if it has one, and the    *)
(* names of its .nsidat files; its bit depth is 16.  The voxels are small  *)
(* integers, for which the float32 arithmetic of scale is exact, and every *)
(* volume has two different values.  obj is the running script: [pc,       *)
(* force, files, globals], globals the four module-level bounds.  The .dat *)
(* is written without its lines and the quality-control images of          *)
(* util.extract are not written.                                           *)
(***************************************************************************)
MaxVoxel == 2       \* largest voxel of an .nsidat file

\* set_initial_bounds(metadata): the globals after the scan of the .nsidat files
set_initial_bounds(globals, d, cwd, datafiles) ==
    LET RECURSIVE scan(_, _)
        scan(g, k) ==
            IF k > Len(datafiles) THEN g
            ELSE LET df == {d.files[Path(cwd, datafiles[k])].data[i] :
                              i \in 1..Len(d.files[Path(cwd, datafiles[k])].data)}
                     df_min == CHOOSE m \in df : \A v \in df : m <= v
                     df_max == Max(df)
                 IN  scan([g EXCEPT
                             !.INITIAL_LOWER_BOUND =
                                IF IsNone(@) THEN Some(df_min)
                                ELSE Some(IF @[1] < df_min THEN @[1] ELSE df_min),
                             !.INITIAL_UPPER_BOUND =
                                IF IsNone(@) THEN Some(df_max)
                                ELSE Some(IF @[1] > df_max THEN @[1] ELSE df_max)],
                          k + 1)
    IN  scan(globals, 1)

\* the end of a pass of the loop without "Reset bounds after file has been
\* processed"
reset_bounds_skipped(globals) == globals

\* Reset bounds after file has been processed
reset_bounds(globals) ==
    [INITIAL_LOWER_BOUND |-> None, INITIAL_UPPER_BOUND |-> None,
     TARGET_LOWER_BOUND |-> None, TARGET_UPPER_BOUND |-> None]

\* args = parseOptions(): the files in the order of the command line
Nsihdr2rawStart ==
    /\ obj.pc = "none"
    /\ \E force \in BOOLEAN :
          \E files \in DistinctSeqs({p \in DOMAIN disk.files : disk.files[p].kind = "nsihdr"}, 2) :
             /\ files # <<>>
             /\ obj' = [pc |-> "nsihdr2raw", force |-> force, files |-> files,
                        globals |-> reset_bounds(<<>>)]
    /\ UNCHANGED <<disk, Others>>

\* one pass of "for f in args.files"
Nsihdr2rawFile ==
    /\ obj.pc = "nsihdr2raw"
    /\ obj.files # <<>>
    /\ LET f == Head(obj.files)
           cwd == f.dir
           stem == splitext(f.name)[1]
           output == Path(cwd, stem \o <<".", "r", "a", "w">>)
           project_metadata == disk.files[f].data
           \* read_nsihdr sets the initial bounds from a <DataRange> line
           from_header == IF IsNone(project_metadata.data_range) THEN obj.globals
                          ELSE [obj.globals EXCEPT
                           !.INITIAL_LOWER_BOUND = Some(project_metadata.data_range[1][1]),
                           !.INITIAL_UPPER_BOUND = Some(project_metadata.data_range[1][2])]
           target == [from_header EXCEPT !.TARGET_LOWER_BOUND = Some(0),
                                  !.TARGET_UPPER_BOUND = Some(Uint16Max)]
           bounds == IF ~IsNone(target.INITIAL_LOWER_BOUND) /\ ~IsNone(target.INITIAL_UPPER_BOUND)
                     THEN target
                     ELSE set_initial_bounds(target, disk, cwd, project_metadata.datafiles)
           lo == bounds.INITIAL_LOWER_BOUND[1]
           hi == bounds.INITIAL_UPPER_BOUND[1]
           \* scale(df).astype('uint16')
           sdf(df) ==
               [i \in 1..Len(df) |->
                  floor(add(multiply(true_divide(bounds.TARGET_UPPER_BOUND[1]
                                                   - bounds.TARGET_LOWER_BOUND[1], hi - lo),
                                     df[i] - lo),
                            bounds.TARGET_LOWER_BOUND[1]))]
           RECURSIVE appended(_)
           appended(k) ==
               IF k > Len(project_metadata.datafiles) THEN <<>>
               ELSE sdf(disk.files[Path(cwd, project_metadata.datafiles[k])].data) \o appended(k + 1)
       IN  IF output \in DOMAIN disk.files /\ ~obj.force
           THEN \* sys.exit(0)
                /\ obj' = [obj EXCEPT !.pc = "exited", !.globals = target]
                /\ disk' = disk
           ELSE /\ obj' = [obj EXCEPT !.files = Tail(@), !.globals = reset_bounds(bounds)]
                /\ disk' = [disk EXCEPT !.files =
                              Put(Put(Put(@, output, File("raw", "uint16", "", 0, 0, appended(1))),
                                      Path(cwd, stem \o <<".", "d", "a", "t">>),
                                      File("dat", "", "", 0, 0, <<>>)),
                                  Path(cwd, stem \o <<".", "f", "l", "o", "a", "t", "3", "2", ".",
                                                      "r", "a", "n", "g", "e">>),
                                  File("range", "", "", 0, 0, <<lo, hi>>))]
    /\ UNCHANGED Others

\* the projects d/a.nsihdr and d/b.nsihdr, each of two .nsidat files with
\* one voxel, with or without a <DataRange> in the header; a.raw exists or not
InitNsihdr2raw ==
    /\ \E voxels \in [{"a", "b"} -> {v \in [1..2 -> 0..MaxVoxel] : v[1] # v[2]}],
          data_range \in [{"a", "b"} -> {None, Some(<<0, MaxVoxel + 1>>)}],
          has_raw \in BOOLEAN :
          disk = [dirs |-> {<<"d">>},
                  files |->
                    [q \in {Path(<<"d">>, <<s>> \o e) :
                              s \in {"a", "b"},
                              e \in {<<".", "n", "s", "i", "h", "d", "r">>,
                                     <<"1", ".", "n", "s", "i", "d", "a", "t">>,
                                     <<"2", ".", "n", "s", "i", "d", "a", "t">>}}
                           \cup {Path(<<"d">>, <<"a", ".", "r", "a", "w">>) : s \in {t \in {1} : has_raw}} |->
                       IF splitext(q.name)[2] = <<".", "n", "s", "i", "h", "d", "r">>
                       THEN File("nsihdr", "", "", 0, 0,
                                 [data_range |-> data_range[q.name[1]],
                                  datafiles |-> << <<q.name[1], "1", ".", "n", "s", "i", "d", "a", "t">>,
                                                   <<q.name[1], "2", ".", "n", "s", "i", "d", "a", "t">> >>])
                       ELSE IF splitext(q.name)[2] = <<".", "r", "a", "w">>
                       THEN File("raw", "uint16", "", 0, 0, <<7>>)
                       ELSE File("nsidat", "float32", "", 0, 0,
                                 <<voxels[q.name[1]][IF q.name[2] = "1" THEN 1 ELSE 2]>>)]]
    /\ obj = NoDataset
    /\ OthersIdle

NextNsihdr2raw == Nsihdr2rawStart \/ Nsihdr2rawFile

SpecNsihdr2raw == InitNsihdr2raw /\ [][NextNsihdr2raw]_vars

(***************************************************************************)
(* Raw.from_array(obj, path, thickness=thickness).  An array is [dtype,    *)
(* shape, data], its shape (z, y, x) or, with two dimensions, (y, x).  The *)
(* result is the exception raised, the disk left and the Raw returned.     *)
(***************************************************************************)
Raw_from_array(d, arr, path, thickness) ==
    LET fname == splitext(path.name)[1]
        dat_path == Path(path.dir, fname \o <<".", "d", "a", "t">>)
        \* open(path, 'wb'); ifp.write(obj.tobytes())
        dumped == [d EXCEPT !.files = Put(@, path, File("raw", arr.dtype, "", 0, 0, arr.data))]
        reversed(shape) == [k \in 1..Len(shape) |-> shape[Len(shape) + 1 - k]]
    IN  IF Len(arr.shape) # 3 THEN [exc |-> "ValueError", disk |-> d, raw |-> NoDataset]
        ELSE CHOOSE r \in
               {IF w.exc # ""
                THEN [exc |-> w.exc,
                      disk |-> IF w.opened
                               THEN [dumped EXCEPT !.files = Put(@, dat_path, File("dat", "", "", 0, 0, w.text))]
                               ELSE dumped,
                      raw |-> NoDataset]
                ELSE CHOOSE q \in
                       {[exc |-> made.exc, disk |-> written, raw |-> made] :
                          written \in {[dumped EXCEPT !.files =
                                          Put(@, dat_path, File("dat", "", "", 0, 0, w.text))]},
                          made \in {Raw([dumped EXCEPT !.files =
                                           Put(@, dat_path, File("dat", "", "", 0, 0, w.text))],
                                        join(path.dir, path.name))}} : TRUE :
                  w \in {write([stem |-> fname],
                               PyTuple([k \in 1..3 |-> PyInt(reversed(arr.shape)[k])]),
                               thickness, arr.dtype, DefaultModel)}} : TRUE

\* Raw.from_array(obj, 'd/o.raw', thickness=thickness) on an array of one
\* to MaxDim voxels
RawFromArray ==
    /\ obj.pc = "none"
    /\ \E dtype \in {"uint8", "uint16", "float32", "float64"},
          shape \in {<<1, 1, 1>>, <<1, 1, MaxDim>>, <<MaxDim, 1, 1>>, <<1, MaxDim>>},
          thickness \in GoodThArgs \cup OddThArgs :
          \E data \in UNION {[1..n -> {0, 1}] : n \in {1, MaxDim}} :
             /\ Len(data) = shape[1] * shape[Len(shape)]
             /\ \E r \in {Raw_from_array(disk, [dtype |-> dtype, shape |-> shape, data |-> data],
                                         OutRaw, thickness)} :
                   /\ disk' = r.disk
                   /\ obj' = IF r.exc # ""
                             THEN [pc |-> "failed", exc |-> r.exc, op |-> "from_array",
                                   args |-> [dtype |-> dtype, thickness |-> thickness]]
                             ELSE [r.raw EXCEPT !.op = "from_array",
                                                !.args = [dtype |-> dtype, thickness |-> thickness]]
    /\ UNCHANGED Others

\* the directory d, empty or holding the volume v
InitFromArray ==
    /\ \/ disk = [dirs |-> {<<"d">>}, files |-> <<>>]
       \/ disk = VolumeDisk(<<1, 1, 1>>, "uint8", <<"1", ".", "0">>, <<0>>)
    /\ obj = NoDataset
    /\ OthersIdle

SpecFromArray == InitFromArray /\ [][RawFromArray]_vars

(***************************************************************************)
(* raw2img.extract_slices(args, fp) on the volume d/v.raw.  The parent     *)
(* process walks the slices and hands one job per slice to a pool of       *)
(* args.threads workers; a worker runs slice_to_img, whose Image.save      *)
(* opens the image and then writes it.  obj is the call: [pc, args, dims,  *)
(* bitdepth, i, jobs, before], i the next index of the loop, jobs the jobs *)
(* submitted so far as [i, ofp, chunk, at], and before the disk at the     *)
(* start of the call.  The volumes are 8-bit or 16-bit; the range of a     *)
(* float32 volume comes from find_float_range, which is not in the sources.*)
(***************************************************************************)
MaxThreads == 2     \* largest args.threads

\* slice_to_img up to the save: the image of one chunk
slice_to_img(slice, x, y, bitdepth, image_bitdepth) ==
    File("image", image_bitdepth, "", y, x,
         IF bitdepth # image_bitdepth
         THEN scale(slice, 0, iinfo_max(bitdepth), image_bitdepth, "zero").data
         ELSE slice)

\* the image is left alone with the force flag unset, whatever is on disk
already_exists_ignored(d, ofp, force) == FALSE

\* os.path.exists(ofp) and not args.force
already_exists(d, ofp, force) == ofp \in DOMAIN d.files /\ ~force

\* extract_slices up to the loop: the directory is made, the .dat is read and
\* the bit depth is taken from the size of the volume
ExtractSlices ==
    /\ obj.pc = "none"
    /\ \E format \in SliceExts, force, dryrun \in BOOLEAN, threads \in 1..MaxThreads :
          \E fp \in {Path(<<"d">>, <<"v", ".", "r", "a", "w">>)} :
             \E metadata \in {read(disk.files[Path(fp.dir, <<"v", ".", "d", "a", "t">>)].data)} :
                LET dims == metadata[1].dimensions[1]
                    file_size == Len(disk.files[fp].data) * itemsize(disk.files[fp].dtype)
                    minimum_size == prod(dims)
                IN  /\ obj' = [pc |-> "raw2img",
                               args |-> [format |-> format, force |-> force,
                                         dryrun |-> dryrun, threads |-> threads],
                               dims |-> dims,
                               bitdepth |-> IF file_size = minimum_size THEN "uint8"
                                            ELSE IF file_size = minimum_size * 2 THEN "uint16"
                                            ELSE IF file_size = minimum_size * 4 THEN "float32"
                                            ELSE "uint16",
                               i |-> 0, jobs |-> <<>>, before |-> disk]
                    /\ disk' = [disk EXCEPT !.dirs = @ \cup {<<"d", "/", "v">>}]
    /\ UNCHANGED Others

\* one pass of "for i in range(0, z)": the chunk is read and the job is
\* submitted, unless the image exists and force is unset
SubmitSlice ==
    /\ obj.pc = "raw2img"
    /\ obj.i < obj.dims[3]
    /\ LET img_size == obj.dims[1] * obj.dims[2]
           data == disk.files[Path(<<"d">>, <<"v", ".", "r", "a", "w">>)].data
           chunk == SubSeq(data, obj.i * img_size + 1,
                           IF (obj.i + 1) * img_size <= Len(data) THEN (obj.i + 1) * img_size
                           ELSE Len(data))
           ofp == Path(<<"d", "/", "v">>, SliceName(<<"v">>, obj.i, obj.dims[3], obj.args.format))
       IN  IF already_exists(disk, ofp, obj.args.force)
           THEN obj' = [obj EXCEPT !.i = @ + 1]
           ELSE obj' = [obj EXCEPT !.i = @ + 1,
                                   !.jobs = Append(@, [i |-> obj.i, ofp |-> ofp, chunk |-> chunk,
                                                       at |-> "queued"])]
    /\ UNCHANGED <<disk, Others>>

\* a free worker takes a job: slice_to_img up to the opening of the image
JobStart ==
    /\ obj.pc = "raw2img"
    /\ Cardinality({k \in 1..Len(obj.jobs) : obj.jobs[k].at = "saving"}) < obj.args.threads
    /\ \E k \in 1..Len(obj.jobs) :
          /\ obj.jobs[k].at = "queued"
          /\ IF Len(obj.jobs[k].chunk) # obj.dims[1] * obj.dims[2]     \* slice.reshape([y, x])
             THEN /\ obj' = [obj EXCEPT !.jobs[k].at = "failed"]
                  /\ disk' = disk
             ELSE IF obj.args.dryrun
             THEN /\ obj' = [obj EXCEPT !.jobs[k].at = "done"]
                  /\ disk' = disk
             ELSE /\ obj' = [obj EXCEPT !.jobs[k].at = "saving"]
                  /\ disk' = [disk EXCEPT !.files =
                                Put(@, obj.jobs[k].ofp,
                                    File("image", IF obj.args.format = <<"t", "i", "f">> THEN "uint16"
                                                  ELSE "uint8", "", 0, 0, <<>>))]
    /\ UNCHANGED Others

\* the worker writes the image and the job ends
JobSave ==
    /\ obj.pc = "raw2img"
    /\ \E k \in 1..Len(obj.jobs) :
          /\ obj.jobs[k].at = "saving"
          /\ obj' = [obj EXCEPT !.jobs[k].at = "done"]
          /\ disk' = [disk EXCEPT !.files =
                        Put(@, obj.jobs[k].ofp,
                            slice_to_img(obj.jobs[k].chunk, obj.dims[1], obj.dims[2], obj.bitdepth,
                                         IF obj.args.format = <<"t", "i", "f">> THEN "uint16"
                                         ELSE "uint8"))]
    /\ UNCHANGED Others

\* p.close(); p.join()
PoolJoin ==
    /\ obj.pc = "raw2img"
    /\ obj.i = obj.dims[3]
    /\ \A k \in 1..Len(obj.jobs) : obj.jobs[k].at \in {"done", "failed"}
    /\ obj' = [obj EXCEPT !.pc = "joined"]
    /\ UNCHANGED <<disk, Others>>

\* a volume of two or three slices whose voxels are 1, 2, ..., with some of
\* its images already in d/v as an earlier run left them
InitExtract ==
    /\ \E dims \in {<<1, 1, 2>>, <<2, 1, 2>>, <<1, 1, MaxDim>>}, bitdepth \in {"uint8", "uint16"},
          earlier \in SUBSET {0, 1} :
          \E d \in {VolumeDisk(dims, bitdepth, <<"1", ".", "0">>, [i \in 1..prod(dims) |-> i])} :
             disk = [dirs |-> IF earlier = {} THEN d.dirs ELSE d.dirs \cup {<<"d", "/", "v">>},
                     files |->
                       [q \in DOMAIN d.files
                              \cup {Path(<<"d", "/", "v">>, SliceName(<<"v">>, i, dims[3], <<"p", "n", "g">>)) :
                                      i \in earlier} |->
                          IF q \in DOMAIN d.files THEN d.files[q]
                          ELSE File("image", "uint8", "", dims[2], dims[1],
                                    [i \in 1..(dims[1] * dims[2]) |-> Uint8Max])]]
    /\ obj = NoDataset
    /\ OthersIdle

NextExtract == ExtractSlices \/ SubmitSlice \/ JobStart \/ JobSave \/ PoolJoin

SpecExtract == InitExtract /\ [][NextExtract]_vars

(***************************************************************************)
(* The whole model: any of the starting points, any of the operations.     *)
(***************************************************************************)
Init == InitRead \/ InitWrite \/ InitBits \/ InitScale

Next == NextRead \/ NextWrite \/ NextBits \/ NextScale

Spec == Init /\ [][Next]_vars

(***************************************************************************)
(* Properties of dat.read.  They describe the result from the text of the  *)
(* file, without the loop: the dialect in force at line k, the lines that  *)
(* match a field, and the last of them.                                    *)
(***************************************************************************)
Fields == {"object_filename", "dimensions", "thickness", "format", "model"}

IsDecl(rawline) == is_dragonfly_dat_format(Strip(rawline))

SyntaxAt(lines, k) == IF \E j \in 1..k : IsDecl(lines[j]) THEN "Dragonfly" ELSE "NSI"

Extract(field, line, syntax) ==
    CASE field = "object_filename" -> parse_object_filename(line, syntax)
      [] field = "dimensions" -> parse_resolution(line, syntax)
      [] field = "thickness" -> parse_slice_thickness(line, syntax)
      [] field = "format" -> parse_format(line, syntax)
      [] field = "model" -> parse_object_model(line, syntax)

\* what each line of the file gives for each field: None where the line
\* does not match the field's pattern in the dialect in force at the line
Matches(lines) ==
    [k \in 1..Len(lines) |->
        LET line == Strip(lines[k])
            syntax == SyntaxAt(lines, k)
        IN  [f \in Fields |-> Extract(f, line, syntax)]]

Matching(field, matches) == {k \in 1..Len(matches) : ~IsNone(matches[k][field])}

LastMatch(field, matches) ==
    LET matching == Matching(field, matches)
    IN  IF matching = {} THEN None ELSE matches[Max(matching)][field]

ReadEnded == rd.pc \in {"returned", "raised"}

\* C5: read returns a record only when every field was extracted from some
\* line, and the record is complete; when some field was matched by no
\* line it raises ValueError and returns nothing.
C5_AllOrNothing ==
    ReadEnded =>
        \E matches \in {Matches(rd.lines)} :
            /\ rd.pc = "returned" =>
                  /\ \A f \in Fields : Matching(f, matches) # {}
                  /\ rd.result = Some(rd.dat)
                  /\ \A f \in Fields : ~IsNone(rd.dat[f])
            /\ rd.pc = "raised" =>
                  /\ \E f \in Fields : Matching(f, matches) = {}
                  /\ rd.result = None

\* read raised on a file in which every field but one is matched
C5_Witness ==
    /\ rd.pc = "raised"
    /\ Cardinality({f \in Fields : Matching(f, Matches(rd.lines)) # {}}) = 4
    /\ rd.result = None

\* C6: the dialect is NSI until a line that is the XML declaration is
\* scanned and Dragonfly from that line on; each line is extracted with the
\* patterns of the dialect in force at it, and the dialect never goes back.
C6_DialectSwitch ==
    /\ [](rd.pc # "idle" => rd.dat.syntax = SyntaxAt(rd.lines, rd.i))
    /\ [][(rd.pc = "scan" /\ rd'.pc = "scan" /\ rd'.i = rd.i + 1) =>
             /\ rd.dat.syntax = "Dragonfly" => rd'.dat.syntax = "Dragonfly"
             /\ \E line \in {Strip(rd.lines[rd'.i])}, syntax \in {SyntaxAt(rd.lines, rd'.i)} :
                   \A f \in Fields :
                      \E new \in {Extract(f, line, syntax)} :
                         rd'.dat[f] = IF IsNone(new) THEN rd.dat[f] ELSE new]_vars

\* read returned from a file whose XML declaration is not its first line
C6_Witness ==
    /\ rd.pc = "returned"
    /\ rd.dat.syntax = "Dragonfly"
    /\ ~IsDecl(rd.lines[1])
    /\ \E k \in 2..Len(rd.lines) : IsDecl(rd.lines[k])

\* every line of the model, the declaration first
AllLines ==
    <<XmlDecl, BadXmlDecl, NsiName, NsiRes, NsiRes2, NsiTh, NsiFormat, NsiModel, NsiBadModel,
      DfName, DfRes, DfSpacing, DfFormat, DfUnit>>

\* the lines of a file in the order of AllLines
Canonical(lines) == SelectSeq(AllLines, LAMBDA l : \E k \in 1..Len(lines) : lines[k] = l)

\* the declaration, if any, is the first line
OneDialect(lines) == \A k \in 2..Len(lines) : ~IsDecl(lines[k])

\* no field is matched by two lines
NoDuplicates(matches) == \A f \in Fields : Cardinality(Matching(f, matches)) <= 1

\* C7: in a file of one dialect the values read do not depend on the order
\* of the field lines, and a field matched by several lines has the value
\* of the last of them.
C7_OrderAndLastMatch ==
    ReadEnded =>
        \E matches \in {Matches(rd.lines)} :
            /\ \A f \in Fields : rd.dat[f] = LastMatch(f, matches)
            /\ (OneDialect(rd.lines) /\ NoDuplicates(matches)) =>
                  \E dat \in {ReadLines(NewDat, Canonical(rd.lines))} :
                     \A f \in Fields : rd.dat[f] = dat[f]

\* read returned from a file with two Resolution lines, the last line of
\* the file being one of them, and its field lines not in canonical order
C7_Witness ==
    /\ rd.pc = "returned"
    /\ rd.lines[1] = NsiRes2
    /\ rd.lines[Len(rd.lines)] = NsiRes
    /\ rd.dat.dimensions = Some(<<10, 11, 12>>)

(***************************************************************************)
(* Properties of dat.write.                                                *)
(***************************************************************************)
ValidationErrors == {"ValueError", "KeyError", "TypeError"}

Items(arg) == IF arg.kind = "dict" THEN <<arg.map["x"], arg.map["y"], arg.map["z"]>> ELSE arg.seq

\* the arguments of the call were three positive integers, three positive
\* reals and one of the three dtypes
RoundTripDomain ==
    /\ wr.dtype \in {"uint8", "uint16", "float32"}
    /\ \A k \in 1..3 : Items(wr.dimensions)[k].t = "int" /\ Items(wr.dimensions)[k].v > 0
    /\ \A k \in 1..3 : Items(wr.thickness)[k].t \in {"int", "float"}
                       /\ Items(wr.thickness)[k].v > 0

\* the file write() produced has been read to the end
WrittenFileRead ==
    /\ wr.pc = "returned"
    /\ rd.pc \in {"returned", "raised"}
    /\ rd.lines = datFile.lines

\* C8: reading the file that write(path, dims, thickness, dtype) produced
\* returns a record whose dimensions, thickness and format are the ones
\* written, for positive integer dims, positive real thickness and dtype
\* uint8, uint16 or float32.
C8_RoundTrip ==
    (WrittenFileRead /\ RoundTripDomain) =>
        /\ rd.pc = "returned"
        /\ rd.dat.dimensions = Some(Triple(wr.dimensions, "int").v)
        /\ rd.dat.thickness = Some(Triple(wr.thickness, "float").v)
        /\ rd.dat.format = format_from_bitdepth(wr.dtype)

\* C9: a call of write that raises from the validation of dimensions,
\* thickness or dtype leaves the target as it was: not created, not changed.
C9_ValidationFrame ==
    [][(wr.pc = "idle" /\ wr'.pc = "raised" /\ wr'.exc \in ValidationErrors)
          => datFile' = datFile]_vars

\* a call raised from validation while the target held text
C9_Witness ==
    /\ wr.pc = "raised"
    /\ wr.exc \in ValidationErrors
    /\ wr.dtype = "int32"
    /\ datFile.exists
    /\ datFile.lines # <<>>

(***************************************************************************)
(* Properties of determine_bit_depth and of the reads of a Raw.            *)
(***************************************************************************)
\* the voxel count of the last call
CallN == prod(dbd.dims)

\* C1: when the .raw file's size is not the declared format's byte width
\* times the voxel count, every read of the constructed Raw uses the bit
\* depth determine_bit_depth infers from the size.
C1_ReadsUseInferredDepth ==
    (/\ raw.pc = "ok"
     /\ raw.op # ""
     /\ raw.filesize # itemsize(bitdepth_from_format(raw.format)[1]) * prod(raw.dims))
        => Some(raw.dtype) = determine_bit_depth(raw.filesize, raw.dims).ret

\* C2: for a voxel count n >= 1, a file of exactly n, 2n or 4n bytes gives
\* uint8, uint16 or float32, without a corruption warning.
C2_ExactSizes ==
    (dbd.pc = "done" /\ CallN >= 1) =>
        /\ dbd.size = CallN => dbd.ret = Some("uint8") /\ ~dbd.warned /\ ~dbd.raised
        /\ dbd.size = 2 * CallN => dbd.ret = Some("uint16") /\ ~dbd.warned /\ ~dbd.raised
        /\ dbd.size = 4 * CallN => dbd.ret = Some("float32") /\ ~dbd.warned /\ ~dbd.raised

\* a call on a file of exactly 4n bytes, n > 1, returned float32
C2_Witness ==
    /\ dbd.pc = "done"
    /\ CallN > 1
    /\ dbd.size = 4 * CallN
    /\ dbd.ret = Some("float32")

\* C3: a file of more than 4n bytes makes the call raise, and no bit depth
\* is returned.
C3_TooLargeRaises ==
    (dbd.pc = "done" /\ dbd.size > 4 * CallN) => dbd.raised /\ dbd.ret = None

\* a call on a file of 4n + 1 bytes raised, inside the construction of a Raw
C3_Witness ==
    /\ dbd.pc = "done"
    /\ CallN >= 1
    /\ dbd.size = 4 * CallN + 1
    /\ dbd.raised
    /\ raw.pc = "failed"

\* C4 as stated: for a size s that is none of n, 2n, 4n, the call returns
\* uint16 with a warning when 0 < s < 2n and float32 with a warning when
\* 2n < s < 4n.
C4_AsStated ==
    (dbd.pc = "done" /\ dbd.size \notin {CallN, 2 * CallN, 4 * CallN}) =>
        /\ (0 < dbd.size /\ dbd.size < 2 * CallN)
              => dbd.ret = Some("uint16") /\ dbd.warned /\ ~dbd.raised
        /\ (2 * CallN < dbd.size /\ dbd.size < 4 * CallN)
              => dbd.ret = Some("float32") /\ dbd.warned /\ ~dbd.raised

\* C4, amended: for a size s that is none of n, 2n, 4n, the call returns
\* uint8 with a warning when s < n, uint16 with a warning when n < s < 2n
\* and float32 with a warning when 2n < s < 4n.
C4_Buckets ==
    (dbd.pc = "done" /\ dbd.size \notin {CallN, 2 * CallN, 4 * CallN}) =>
        /\ dbd.size < CallN => dbd.ret = Some("uint8") /\ dbd.warned /\ ~dbd.raised
        /\ (CallN < dbd.size /\ dbd.size < 2 * CallN)
              => dbd.ret = Some("uint16") /\ dbd.warned /\ ~dbd.raised
        /\ (2 * CallN < dbd.size /\ dbd.size < 4 * CallN)
              => dbd.ret = Some("float32") /\ dbd.warned /\ ~dbd.raised

\* a call on a file one byte short of n returned uint8 with a warning
C4_Witness ==
    /\ dbd.pc = "done"
    /\ dbd.size > 0
    /\ dbd.size = CallN - 1
    /\ dbd.ret = Some("uint8")
    /\ dbd.warned

(***************************************************************************)
(* Properties of the scaling from uint16 to uint8.                         *)
(***************************************************************************)
\* C10: scaling from [0, 65535] to [0, 255] and flooring gives
\* floor(x * 255 / 65535), which lies in 0..255, for every x in 0..65535;
\* so 0 gives 0, 65535 gives 255 and 32767 gives 127.
C10_ScaleFloor ==
    sc.pc = "done" =>
        /\ sc.y = (sc.x * Uint8Max) \div Uint16Max
        /\ sc.y \in 0..Uint8Max
        /\ sc.x = 0 => sc.y = 0
        /\ sc.x = Uint16Max => sc.y = Uint8Max
        /\ sc.x = 32767 => sc.y = 127

\* the pixel 32767 has been scaled to 127
C10_Witness == sc.pc = "done" /\ sc.x = 32767 /\ sc.y = 127

(***************************************************************************)
(* C11: scale with inMin = inMax ends in an error for every x and gives no *)
(* output value; Raw.to_raw and Raw.to_slices on a float32 volume whose    *)
(* minimum equals its maximum fail instead of writing scaled data.         *)
(***************************************************************************)
C11_EqualBoundsFail ==
    (/\ obj.pc = "Raw" /\ obj.op \in {"to_slices", "to_raw"}
     /\ obj.bitdepth = "float32"
     /\ obj.args.bitdepth \in {"uint8", "uint16"}
     /\ \E lohi \in {minmax(disk.files[obj.path], obj.dims, obj.bitdepth)} :
           lohi.exc = "" /\ lohi.v[1] = lohi.v[2]) =>
       /\ obj.exc # ""
       /\ \A p \in DOMAIN disk.files : disk.files[p].kind \notin {"image"} /\ p # OutRaw

(***************************************************************************)
(* C12: for every bit depth and every volume whose .raw holds x*y*z voxels *)
(* of that depth, Raw.minmax returns the smallest and the largest voxel of *)
(* the whole volume.                                                       *)
(***************************************************************************)
C12_MinmaxWholeVolume ==
    (/\ obj.pc = "Raw" /\ obj.op = "minmax"
     /\ obj.filesize = prod(obj.dims) * itemsize(obj.bitdepth)) =>
       \E voxels \in {disk.files[obj.path].data} :
          /\ obj.exc = ""
          /\ (\E i \in 1..Len(voxels) : obj.ret[1] = voxels[i]) /\ \A i \in 1..Len(voxels) : obj.ret[1] <= voxels[i]
          /\ (\E i \in 1..Len(voxels) : obj.ret[2] = voxels[i]) /\ \A i \in 1..Len(voxels) : voxels[i] <= obj.ret[2]

\* the extremes of a 16-bit volume lie in its last slice only
C12_Witness ==
    /\ obj.pc = "Raw" /\ obj.op = "minmax" /\ obj.exc = ""
    /\ obj.bitdepth = "uint16" /\ obj.dims = <<1, 1, 3>>
    /\ disk.files[obj.path].data = <<1, 1, 0>>
    /\ obj.ret = <<0, 1>>

(***************************************************************************)
(* C13: Raw.to_slices on a volume of z slices writes exactly z image files *)
(* into the output directory, one per index i in 0..z-1, named             *)
(* <raw stem>_<i>.<ext> with i zero-padded to the number of decimal digits *)
(* of z; the names are pairwise distinct.                                  *)
(***************************************************************************)
C13_SliceFiles ==
    (obj.pc = "Raw" /\ obj.op = "to_slices" /\ obj.exc = "" /\ ~obj.args.dryrun) =>
       LET stem == splitext(obj.path.name)[1]
           target == join(obj.path.dir, stem)
           names == listdir(disk, target)
           z == obj.dims[3]
           width == Len(StrOfNat(z))
           from == Len(stem) + 2
       IN  /\ Cardinality(names) = z
           /\ \A n \in names : disk.files[Path(target, n)].kind = "image"
           /\ \A i \in 0..(z - 1) :
                 \E n \in names :
                    /\ Len(n) = Len(stem) + 1 + width + 1 + Len(obj.args.ext)
                    /\ SubSeq(n, 1, from - 1) = stem \o <<"_">>
                    /\ AllDigits(SubSeq(n, from, from + width - 1))
                    /\ IntOf(SubSeq(n, from, from + width - 1)) = i
                    /\ SubSeq(n, from + width, Len(n)) = <<".">> \o obj.args.ext

\* the slices of a volume of ten or more slices have been written, slice 9
\* as v_09
C13_Witness ==
    /\ obj.pc = "Raw" /\ obj.op = "to_slices" /\ obj.exc = "" /\ ~obj.args.dryrun
    /\ obj.dims[3] >= 10
    /\ Path(<<"d", "/", "v">>, <<"v", "_", "0", "9", ".", "p", "n", "g">>) \in DOMAIN disk.files

(***************************************************************************)
(* C14: for every input and output bit depth, Raw.to_raw without a shape   *)
(* produces an output .raw of x*y*z voxels of the output bit depth and a   *)
(* same-stem .dat with the dimensions, the thicknesses and the model of    *)
(* the source and the format of the output bit depth, so that the output   *)
(* can be opened as a Raw.                                                 *)
(***************************************************************************)
C14_ToRawOutput ==
    (/\ obj.pc = "Raw" /\ obj.op = "to_raw" /\ obj.exc = "" /\ ~obj.args.dryrun
     /\ obj.filesize = prod(obj.dims) * itemsize(obj.bitdepth)) =>
       LET out == obj.args.path
           bitdepth == IF obj.args.bitdepth = "" THEN obj.bitdepth ELSE obj.args.bitdepth
           dat_fpath == Path(out.dir, splitext(out.name)[1] \o <<".", "d", "a", "t">>)
       IN  /\ out \in DOMAIN disk.files
           /\ disk.files[out].dtype = bitdepth
           /\ Len(disk.files[out].data) = prod(obj.dims)
           /\ dat_fpath \in DOMAIN disk.files
           /\ \E m \in {read(disk.files[dat_fpath].data)} :
                 /\ ~IsNone(m)
                 /\ m[1].dimensions[1] = obj.dims
                 /\ m[1].thickness[1] = obj.thicknesses
                 /\ m[1].format = format_from_bitdepth(bitdepth)
                 /\ m[1].model[1] = obj.model
           /\ \E r \in {Raw(disk, join(out.dir, out.name))} : r.pc = "Raw"

(***************************************************************************)
(* C15: for every uint8 volume, Raw.to_slices with uint8 output followed   *)
(* by Slices.to_raw on the resulting slice directory produces a .raw whose *)
(* bytes are identical, voxel for voxel and in the same order, to the      *)
(* original .raw: the directory opens as a Slices, and the .raw that its   *)
(* to_raw writes holds the voxels the original held before the call.       *)
(***************************************************************************)
C15_RoundTrip ==
    [][LET src == Path(<<"d">>, <<"v", ".", "r", "a", "w">>)
           out == IF obj'.args.path = <<>> THEN src ELSE obj'.args.path
       IN  /\ (/\ obj.pc = "Raw" /\ obj.op = "to_slices" /\ obj.exc = ""
               /\ ~obj.args.dryrun
               /\ obj.bitdepth = "uint8" /\ obj.args.bitdepth = "uint8"
               /\ obj'.op = "Slices") => obj'.pc = "Slices"
           /\ (/\ obj.pc = "Slices" /\ obj.op = "Slices" /\ Len(obj.hist) = 2
               /\ obj.hist[2].op = "to_slices" /\ obj.hist[2].exc = ""
               /\ ~obj.hist[2].args.dryrun /\ obj.hist[2].args.bitdepth = "uint8"
               /\ disk.files[src].dtype = "uint8"
               /\ obj'.op = "to_raw" /\ ~obj'.args.dryrun
               /\ obj'.args.bitdepth \in RAW_BITDEPTHS \cup {""}) =>
                 /\ obj'.exc = ""
                 /\ out \in DOMAIN disk'.files
                 /\ disk'.files[out].dtype = "uint8"
                 /\ disk'.files[out].unit = ""
                 /\ disk'.files[out].data = disk.files[src].data]_vars

(***************************************************************************)
(* C16: Slices.to_raw writes the slices' pixel bytes in increasing order   *)
(* of the numeric suffix of their filenames, for every set of slice        *)
(* filenames, padded to equal width or not: of two slices written, the     *)
(* earlier has the smaller number.                                         *)
(***************************************************************************)
C16_NumericOrder ==
    (obj.pc = "Slices" /\ obj.op = "to_raw" /\ obj.exc = "" /\ ~obj.args.dryrun) =>
       /\ Len(obj.ret) = obj.count
       /\ \A i, j \in 1..Len(obj.ret) :
             i < j => fname2idx(obj.ret[i]) < fname2idx(obj.ret[j])

(***************************************************************************)
(* C17: constructing a Slices from a directory whose slice files do not    *)
(* all have the same pixel bit depth fails with an error; no Slices object *)
(* exists whose slices have differing bit depths.                          *)
(***************************************************************************)
C17_OneBitDepth ==
    (obj.pc \in {"Slices", "failed"} /\ obj.op = "Slices" /\ obj.path \in disk.dirs) =>
       LET depths == {disk.files[Path(obj.path, f)].dtype :
                         f \in {g \in listdir(disk, obj.path) : is_slice(disk, obj.path, g)}}
       IN  Cardinality(depths) > 1 => obj.pc = "failed" /\ obj.exc # ""

(***************************************************************************)
(* C18: Slices.to_pcd on a dataset whose metatype is not 'voxel' raises    *)
(* ValueError before it reads any slice and without creating the output    *)
(* file; on a dataset whose metatype is 'voxel', with a target extension   *)
(* obj, out or xyz, it writes the point-cloud file.                        *)
(***************************************************************************)
C18_PcdOnlyForVoxel ==
    (obj.pc = "Slices" /\ obj.op = "to_pcd") =>
       /\ obj.metatype # "voxel" =>
             /\ obj.exc = "ValueError"
             /\ obj.ret = <<>>
             /\ obj.args.path \notin DOMAIN disk.files
       /\ (/\ obj.metatype = "voxel"
           /\ splitext(obj.args.path.name)[2] \in
                 {<<".", "o", "b", "j">>, <<".", "o", "u", "t">>, <<".", "x", "y", "z">>}
           /\ ~obj.args.dryrun) =>
             /\ obj.exc = ""
             /\ obj.args.path \in DOMAIN disk.files
             /\ disk.files[obj.args.path].kind = "pcd"

\* to_pcd('d/p.obj') was refused for a directory of grayscale slices
C18_Witness ==
    /\ obj.pc = "Slices" /\ obj.op = "to_pcd"
    /\ obj.metatype = "volume"
    /\ obj.args.path.name = <<"p", ".", "o", "b", "j">>
    /\ ~obj.args.dryrun
    /\ obj.exc = "ValueError"

(***************************************************************************)
(* C19: every export (Raw.to_slices, Raw.to_raw, Slices.to_slices,         *)
(* Slices.to_raw) called with an output bit depth that is not supported    *)
(* raises an error before it creates any directory and before it creates,  *)
(* truncates or writes any output file: the call ends in an exception and  *)
(* leaves the disk as it was.                                              *)
(***************************************************************************)
C19_UnsupportedDepthFirst ==
    [][(/\ obj.pc \in {"Raw", "Slices"} /\ obj.op = obj.pc
        /\ obj'.op \in {"to_slices", "to_raw"}
        /\ obj'.args.bitdepth # ""
        /\ obj'.args.bitdepth \notin
              (IF obj'.op = "to_raw" THEN RAW_BITDEPTHS ELSE SLICE_BITDEPTHS)) =>
          /\ obj'.exc # ""
          /\ disk' = disk]_vars

(***************************************************************************)
(* C20: when Raw is constructed for <dir>/<stem>.raw, <dir>/<stem>.dat is  *)
(* the metadata file used if it exists, whatever other .dat files the      *)
(* directory holds; if it does not exist, the closest-named .dat of the    *)
(* directory is used and a warning is logged; if no .dat of the directory  *)
(* is close enough, the construction fails with FileNotFoundError.         *)
(***************************************************************************)
C20_DatResolution ==
    obj.pc \in {"Raw", "failed"} =>
       LET dir == obj.path.dir
           names == {p.name : p \in {q \in DOMAIN disk.files :
                                        q.dir = dir /\ disk.files[q].kind = "dat"}}
           exact == splitext(obj.path.name)[1] \o <<".", "d", "a", "t">>
       IN  IF exact \in names
           THEN obj.exc = "" /\ obj.dat = exact /\ ~obj.warned
           ELSE \E close \in {get_close_matches(join(dir, exact),
                                                {join(dir, n) : n \in names})} :
                   IF close # <<>>
                   THEN obj.exc = "" /\ join(dir, obj.dat) = close[1] /\ obj.warned
                   ELSE obj.exc = "FileNotFoundError"

(***************************************************************************)
(* C21: constructing a Raw whose .raw has a size s that differs from the   *)
(* byte width of the declared format times n, n = x*y*z, with s <= 4n,     *)
(* succeeds and logs a warning about the mismatch, for every such s, also  *)
(* s = n or s = 2n under a wider declared format.                          *)
(***************************************************************************)
C21_MismatchWarned ==
    (/\ raw.pc \in {"ok", "failed"}
     /\ datFile.exists /\ rawFile.exists
     /\ ~IsNone(read(datFile.lines))) =>
       LET metadata == read(datFile.lines)[1]
           bitdepth == bitdepth_from_format(metadata.format[1])
           n == prod(metadata.dimensions[1])
       IN  (/\ ~IsNone(bitdepth)
            /\ rawFile.size # itemsize(bitdepth[1]) * n
            /\ rawFile.size <= 4 * n) =>
              /\ raw.pc = "ok"
              /\ dbd.pc = "done" /\ dbd.warned

(***************************************************************************)
(* C22: any iteration over Raw.slices yields exactly z arrays, in          *)
(* increasing z-index order, the k-th being the x*y voxels stored at byte  *)
(* offset k*x*y*(bytes per voxel) of the .raw; each new access starts      *)
(* again at slice 0, also after an earlier iteration was abandoned: what   *)
(* the generator has yielded are the first slices of the file, and it      *)
(* ends, by StopIteration, after z of them.                                *)
(***************************************************************************)
C22_SlicesInOrder ==
    (obj.pc = "Raw" /\ obj.op = "slices") =>
       LET n_pixels == obj.dims[1] * obj.dims[2]
           data == disk.files[obj.path].data
       IN  /\ Len(obj.ret) <= obj.dims[3]
           /\ \A k \in 1..Len(obj.ret) :
                 /\ obj.ret[k].offset = (k - 1) * n_pixels * itemsize(obj.bitdepth)
                 /\ (k - 1) * n_pixels + n_pixels <= Len(data)
                 /\ obj.ret[k].data = SubSeq(data, (k - 1) * n_pixels + 1, k * n_pixels)
           /\ obj.exc # "" => obj.exc = "StopIteration" /\ Len(obj.ret) = obj.dims[3]

(***************************************************************************)
(* C23: with dryrun set, Raw.to_slices and Raw.to_raw leave the file       *)
(* system unchanged: no directory is created and no file is created,       *)
(* truncated or written.                                                   *)
(***************************************************************************)
C23_DryrunFrame ==
    [][(/\ obj.pc = "Raw" /\ obj.op = "Raw"
        /\ obj'.op \in {"to_slices", "to_raw"}
        /\ obj'.args.dryrun) => disk' = disk]_vars

(***************************************************************************)
(* C24: dat.read in the NSI dialect, given a file with no colon-style      *)
(* 'Resolution:' line but with a line <Resolution X=".." Y=".." Z=".."/>,  *)
(* takes the dimensions from that tag, whatever the line's indentation.    *)
(***************************************************************************)
C24_LegacyResolution ==
    (/\ ReadEnded
     /\ \A k \in 1..Len(rd.lines) :
           /\ ~is_dragonfly_dat_format(Strip(rd.lines[k]))
           /\ IsNone(ResolutionColon(Strip(rd.lines[k]), Ws0(Strip(rd.lines[k]), 1)))
     /\ \E k \in 1..Len(rd.lines) : rd.lines[k] \in {DfRes, Tail(DfRes)}) =>
       /\ rd.pc = "returned"
       /\ rd.dat.dimensions = Some(<<37, 37, 4>>)

C26_PositiveDimensions ==
    raw.pc = "ok" =>
       /\ \A k \in 1..3 : raw.dims[k] > 0
       /\ write(DatPath, PyTuple(Ints(raw.dims)), PyTuple(<<PyFloat(One), PyFloat(One), PyFloat(One)>>),
                raw.bitdepth, DefaultModel).exc = "" => \A k \in 1..3 : raw.dims[k] > 0

(***************************************************************************)
(* C27: in the nsihdr batch conversion with force unset, no .raw or .dat   *)
(* file that exists is modified or deleted, and a volume whose .raw exists *)
(* is skipped; with force set, the .raw of a processed volume holds only   *)
(* the newly converted slices.                                             *)
(***************************************************************************)
C27_ForceGuardsOutputs ==
    [][(obj.pc = "nsihdr" /\ obj'.pc = "nsihdr" /\ obj'.exc = "" /\ obj # obj') =>
         IF obj.force
         THEN LET fp == Head(obj.files)
                  v == disk.files[fp]
                  raw_path == Path(fp.dir, splitext(fp.name)[1] \o <<".", "r", "a", "w">>)
              IN  /\ raw_path \in DOMAIN disk'.files
                  /\ disk'.files[raw_path].data =
                       [i \in 1..Len(v.data) |-> IF v.data[i] = 1 THEN 65535 ELSE 0]
         ELSE \A p \in DOMAIN disk.files :
                 p \in DOMAIN disk'.files /\ disk'.files[p] = disk.files[p]]_vars

C29_RawAndDatTogether ==
    (obj.pc \in {"Raw", "failed"} /\ obj.op = "from_array") =>
       (OutRaw \in DOMAIN disk.files <=>
          Path(OutRaw.dir, <<"o", ".", "d", "a", "t">>) \in DOMAIN disk.files)

(***************************************************************************)
(* C30: in extract_slices each slice index is submitted to the pool at     *)
(* most once and its job writes only the image named for that index, so no *)
(* two jobs write the same path; once the pool is joined the images are    *)
(* the same for every order in which the jobs ran: with force unset the    *)
(* images that existed are as they were and never rewritten, and every     *)
(* other image is the image of its own slice.                              *)
(***************************************************************************)
C30_JobsIndependent ==
    obj.pc \in {"raw2img", "joined"} =>
       LET z == obj.dims[3]
           img_size == obj.dims[1] * obj.dims[2]
           name(i) == Path(<<"d", "/", "v">>, SliceName(<<"v">>, i, z, obj.args.format))
           raw_data == obj.before.files[Path(<<"d">>, <<"v", ".", "r", "a", "w">>)].data
           image_bitdepth == IF obj.args.format = <<"t", "i", "f">> THEN "uint16" ELSE "uint8"
           image(i) ==
               File("image", image_bitdepth, "", obj.dims[2], obj.dims[1],
                    [n \in 1..img_size |->
                       IF obj.bitdepth = image_bitdepth THEN raw_data[i * img_size + n]
                       ELSE linear_scale(raw_data[i * img_size + n], 0,
                                         IF obj.bitdepth = "uint8" THEN Uint8Max ELSE Uint16Max,
                                         0, IF image_bitdepth = "uint8" THEN Uint8Max ELSE Uint16Max).ip])
       IN  /\ \A k, l \in 1..Len(obj.jobs) :
                 k # l => obj.jobs[k].i # obj.jobs[l].i /\ obj.jobs[k].ofp # obj.jobs[l].ofp
           /\ \A k \in 1..Len(obj.jobs) : obj.jobs[k].i \in 0..(z - 1) /\ obj.jobs[k].ofp = name(obj.jobs[k].i)
           /\ \A p \in (DOMAIN disk.files) \cup (DOMAIN obj.before.files) :
                 (p \notin DOMAIN disk.files \/ p \notin DOMAIN obj.before.files
                    \/ disk.files[p] # obj.before.files[p]) =>
                    \E k \in 1..Len(obj.jobs) :
                       obj.jobs[k].ofp = p /\ obj.jobs[k].at \in {"saving", "done"}
           /\ ~obj.args.force =>
                 \A p \in DOMAIN obj.before.files :
                    p \in DOMAIN disk.files /\ disk.files[p] = obj.before.files[p]
           /\ obj.pc = "joined" =>
                 \A i \in 0..(z - 1) :
                    IF name(i) \in DOMAIN obj.before.files /\ ~obj.args.force
                    THEN disk.files[name(i)] = obj.before.files[name(i)]
                    ELSE IF obj.args.dryrun
                    THEN (name(i) \in DOMAIN disk.files <=> name(i) \in DOMAIN obj.before.files)
                    ELSE name(i) \in DOMAIN disk.files /\ disk.files[name(i)] = image(i)

\* the two jobs of a volume of MaxDim slices end in another order than they
\* were submitted in, around an image that is left alone
C30_Witness ==
    /\ obj.pc = "raw2img"
    /\ ~obj.args.force /\ ~obj.args.dryrun
    /\ obj.dims[3] = MaxDim
    /\ Len(obj.jobs) = 2
    /\ obj.jobs[1].at = "saving" /\ obj.jobs[2].at = "done"
    /\ Path(<<"d", "/", "v">>, SliceName(<<"v">>, 1, MaxDim, <<"p", "n", "g">>)) \in DOMAIN obj.before.files

====
